---- MODULE Spec2Model ----
(***************************************************************************)
(* MoneyBot (src/main/main.c): network association state machine, session  *)
(* manager and inbound event pipeline, as a state machine.                 *)
(*                                                                         *)
(* Tasks of the firmware that appear here:                                 *)
(*   - the main task (app_main -> wifi_connect -> time sync -> mqtt_start) *)
(*   - the default event loop task, which runs wifi_event_handler on the   *)
(*     events the Wi-Fi driver posted (evq is the loop's queue)            *)
(*   - the MQTT task, which runs mqtt_event_handler / handle_mqtt_message  *)
(*   - animation_task, the consumer of animation_queue                     *)
(* The Wi-Fi driver is the environment: it posts events according to the   *)
(* station's link state (radio).                                           *)
(***************************************************************************)
EXTENDS Integers, Sequences, FiniteSets, TLC

\* ------------------------------------------------------------------------
\* Program constants
\* ------------------------------------------------------------------------
ANIMATION_DEBOUNCE_MS == 1000
WIFI_RETRY_MAX == 2
SNTP_RETRY_COUNT == 3
QUEUE_LENGTH == 5
CURRENCY_SIZE == 8
EVENT_ID_SIZE == 64
MIN_CERT_LEN == 100
SNTP_POLL_MS == 500
INT32_MAX == 2147483647

\* conn_state_t
CONN_STATE_DISCONNECTED == "DISCONNECTED"
CONN_STATE_WIFI_CONNECTING == "WIFI_CONNECTING"
CONN_STATE_WIFI_PROVISIONING == "WIFI_PROVISIONING"
CONN_STATE_WIFI_CONNECTED == "WIFI_CONNECTED"
CONN_STATE_MQTT_CONNECTING == "MQTT_CONNECTING"
CONN_STATE_MQTT_CONNECTED == "MQTT_CONNECTED"

conn_state_t ==
    { CONN_STATE_DISCONNECTED, CONN_STATE_WIFI_CONNECTING,
      CONN_STATE_WIFI_PROVISIONING, CONN_STATE_WIFI_CONNECTED,
      CONN_STATE_MQTT_CONNECTING, CONN_STATE_MQTT_CONNECTED }

\* Event group bits
WIFI_CONNECTED_BIT == "CONNECTED"
WIFI_FAIL_BIT == "FAIL"

\* Events the handler is registered for
WIFI_EVENT_STA_START == "STA_START"
WIFI_EVENT_STA_DISCONNECTED == "STA_DISCONNECTED"
WIFI_EVENT_AP_START == "AP_START"
IP_EVENT_STA_GOT_IP == "GOT_IP"

VARIABLES
    \* --- persisted / build inputs of this boot
    creds,              \* has_stored_credentials() result of this boot
    certLen,            \* smallest length of the three embedded PEM blobs
    \* --- main task
    pc,                 \* position of the main task
    sntp_attempts,      \* app_main local
    \* --- globals of main.c
    connection_state,
    led,                \* last colour given to set_led
    wifi_retry_count,
    provisioning_mode,
    scanning_mode,
    bits,               \* wifi_event_group
    mqtt_client,        \* "null" | "started"
    portal,             \* start_provisioning has called dns_server_start and start_captive_portal
    \* --- environment: Wi-Fi driver, event loop, broker session
    radio,              \* "off" | "ap" | "idle" | "connecting" | "associated" | "connected"
    evq,                \* events posted to the default loop, not yet dispatched
    session,            \* "off" | "connecting" | "connected"
    \* --- history of the association machine (observation only)
    disassocs,          \* consecutive STA_DISCONNECTED handled since the last attempt by wifi_connect / GOT_IP
    reattempts,         \* esp_wifi_connect calls made by the disconnect branch in that period
    lastHandled,        \* the last event dispatched and what the handler did
    \* --- inbound event pipeline
    now,                \* esp_timer_get_time() / 1000
    last_animation_time,
    animation_queue,
    anim,               \* animation_task: "none" | "recv" | "animating"
    \* --- history of the pipeline (observation only)
    msgs,               \* number of handle_mqtt_message calls
    lastMsg,            \* the last handle_mqtt_message call and its outcome
    acceptedAt,         \* receive time of the last accepted message, -1 before the first
    sent,               \* events xQueueSend accepted, in order
    delivered,          \* events given to trigger_sale_animation, in order
    \* --- url_decode: one call, statement by statement
    text,               \* the field as typed into the form
    raw,                \* ssid_raw / pass_raw: the field as received (a C string, without its NUL)
    cap1,               \* dst_size given to url_decode_pass1
    cap2,               \* dst_size given to html_entity_decode
    dpc,                \* "pass1" | "pass2" | "done"
    si,                 \* s, as an index into the pass's source (1 = first byte)
    out,                \* bytes written through d so far in the current pass
    remaining,
    temp,               \* url_decode's temp after pass 1 (C string)
    dst,                \* dst after pass 2 (C string)
    \* --- observation of url_decode
    maxRead,            \* furthest index read in the current pass's source
    readPast,           \* a pass read beyond its source's terminator
    wrote1,             \* bytes pass 1 stored, the NUL included
    wrote2,             \* bytes pass 2 stored, the NUL included
    \* --- dns_server.c
    dns_running,
    dns_socket,         \* -1 or the descriptor
    dns_task_handle,    \* "NULL" | "task"
    openSockets,        \* UDP sockets the DNS responder holds open
    liveTasks,          \* dns_server_task tasks that exist
    \* --- captive portal HTTP server
    captive_httpd,      \* 0 (NULL) or the instance the handle refers to
    servers,            \* HTTP server instances running
    instances,          \* HTTP server instances ever started
    \* --- observation of the portal
    calls,              \* lifecycle calls made after start_provisioning
    lastCall,           \* the last of them
    dgCount,            \* datagrams (and failed receives) the responder handled
    lastRx,             \* the last of them: [len, data]
    lastTx,             \* what sendto was given for it (<< >>: nothing sent)
    txCount,            \* sendto calls
    shorts,             \* receives dropped without a response
    \* --- credential store (NVS) and captive_save_handler
    nvs,                \* what the flash holds for "wifi_ssid" and "wifi_pass"
    nvsPending,         \* values set through the open handle, not yet committed
    hpc,                \* position of captive_save_handler, then of the next boot
    form,               \* ssid and pass after url_decode
    \* --- observation of the save
    saved,              \* which of nvs_open, the two nvs_set_str and nvs_commit succeeded
    restarted,          \* esp_restart was called
    loaded              \* what has_stored_credentials gave the next boot

connVars ==
    << creds, certLen, pc, sntp_attempts, connection_state, led, wifi_retry_count,
       provisioning_mode, scanning_mode, bits, mqtt_client, portal, radio, evq,
       session, disassocs, reattempts, lastHandled >>

pipeVars ==
    << now, last_animation_time, animation_queue, anim, msgs, lastMsg,
       acceptedAt, sent, delivered >>

decodeVars ==
    << text, raw, cap1, cap2, dpc, si, out, remaining, temp, dst, maxRead,
       readPast, wrote1, wrote2 >>

dnsVars == << dns_running, dns_socket, dns_task_handle, openSockets, liveTasks >>

httpVars == << captive_httpd, servers, instances >>

dgVars == << dgCount, lastRx, lastTx, txCount, shorts >>

callVars == << calls, lastCall >>

saveVars == << nvs, nvsPending, hpc, form, saved, restarted, loaded >>

provVars == << decodeVars, dnsVars, httpVars, dgVars, callVars, saveVars >>

vars == << connVars, pipeVars, provVars >>

\* url_decode is not running.
DecodeIdle ==
    /\ text = << >>
    /\ raw = << >>
    /\ cap1 = 0
    /\ cap2 = 0
    /\ dpc = "idle"
    /\ si = 0
    /\ out = << >>
    /\ remaining = 0
    /\ temp = << >>
    /\ dst = << >>
    /\ maxRead = 0
    /\ readPast = FALSE
    /\ wrote1 = 0
    /\ wrote2 = 0

NoDatagram == [len |-> 0, data |-> << >>]
NoCall == [fn |-> "none"]

\* Initialisers of dns_server.c and of captive_httpd.
PortalDown ==
    /\ dns_running = FALSE
    /\ dns_socket = -1
    /\ dns_task_handle = "NULL"
    /\ openSockets = 0
    /\ liveTasks = 0
    /\ captive_httpd = 0
    /\ servers = 0
    /\ instances = 0

\* Both sub-servers started, each call having succeeded.
PortalStarted ==
    /\ dns_running = TRUE
    /\ dns_socket = 0
    /\ dns_task_handle = "task"
    /\ openSockets = 1
    /\ liveTasks = 1
    /\ captive_httpd = 1
    /\ servers = 1
    /\ instances = 1

\* Nothing observed of the portal yet.
PortalUnobserved ==
    /\ calls = 0
    /\ lastCall = NoCall
    /\ dgCount = 0
    /\ lastRx = NoDatagram
    /\ lastTx = << >>
    /\ txCount = 0
    /\ shorts = 0

\* A key that nvs_get_str does not find, and a value not set through the handle.
KEY_ABSENT == "(absent)"
UNSET == "(unset)"

EmptyStore == [ssid |-> KEY_ABSENT, pass |-> KEY_ABSENT]
StoredPair == [ssid |-> "home", pass |-> "pw1"]

\* The store of a boot that has (has not) found credentials.
StoreFor(found) == IF found THEN StoredPair ELSE EmptyStore

NothingPending == [ssid |-> UNSET, pass |-> UNSET]
NothingSaved == [opened |-> FALSE, ssid |-> FALSE, pass |-> FALSE, committed |-> FALSE]
NoForm == [ssid |-> "", pass |-> ""]
NotLoaded == [found |-> FALSE, ssid |-> "", pass |-> ""]

\* No POST /save has been received.
SaveIdle ==
    /\ nvs = StoreFor(creds)
    /\ nvsPending = NothingPending
    /\ hpc = "idle"
    /\ form = NoForm
    /\ saved = NothingSaved
    /\ restarted = FALSE
    /\ loaded = NotLoaded

\* The provisioning portal's components are not in use.
ProvIdle == DecodeIdle /\ PortalDown /\ PortalUnobserved /\ SaveIdle

\* ------------------------------------------------------------------------
\* Status signal
\* ------------------------------------------------------------------------
LED_GREEN == "0,50,0"
LED_CYAN == "0,50,50"
LED_GOLD_DIM == "50,40,0"
LED_RED == "50,0,0"
LED_SALE == "255,180,0"
LED_SUCCESS == "0,255,0"

\* The switch of update_connection_indicator.
IndicatorLed_ConnectingIsCyan(state) ==
    CASE state = CONN_STATE_MQTT_CONNECTED -> LED_GREEN
      [] state \in {CONN_STATE_WIFI_CONNECTED, CONN_STATE_MQTT_CONNECTING,
                    CONN_STATE_WIFI_CONNECTING} -> LED_CYAN
      [] state = CONN_STATE_WIFI_PROVISIONING -> LED_GOLD_DIM
      [] OTHER -> LED_RED

IndicatorLed(state) ==
    CASE state = CONN_STATE_MQTT_CONNECTED -> LED_GREEN
      [] state \in {CONN_STATE_WIFI_CONNECTED, CONN_STATE_MQTT_CONNECTING} -> LED_CYAN
      [] state = CONN_STATE_WIFI_PROVISIONING -> LED_GOLD_DIM
      [] OTHER -> LED_RED

update_connection_indicator(state) ==
    /\ connection_state' = state
    /\ led' = IndicatorLed(state)

\* ------------------------------------------------------------------------
\* Wi-Fi driver (environment)
\* ------------------------------------------------------------------------
\* esp_wifi_connect(): starts an association attempt when the station is
\* started and idle; otherwise it returns an error or changes nothing.
esp_wifi_connect(r) == IF r = "idle" THEN "connecting" ELSE r

\* esp_wifi_stop(): the driver posts STA_DISCONNECTED when the station was
\* associated.
StopEvents(r) ==
    IF r \in {"associated", "connected"} THEN << WIFI_EVENT_STA_DISCONNECTED >> ELSE << >>

\* The access point answered the association request.
RadioAssociate ==
    /\ radio = "connecting"
    /\ radio' = "associated"
    /\ UNCHANGED << creds, certLen, pc, sntp_attempts, connection_state, led,
                    wifi_retry_count, provisioning_mode, scanning_mode, bits,
                    mqtt_client, portal, evq, session, disassocs, reattempts,
                    lastHandled >>
    /\ UNCHANGED pipeVars
    /\ UNCHANGED provVars

\* DHCP gave an address: IP_EVENT_STA_GOT_IP is posted.
RadioGotIp ==
    /\ radio = "associated"
    /\ radio' = "connected"
    /\ evq' = Append(evq, IP_EVENT_STA_GOT_IP)
    /\ UNCHANGED << creds, certLen, pc, sntp_attempts, connection_state, led,
                    wifi_retry_count, provisioning_mode, scanning_mode, bits,
                    mqtt_client, portal, session, disassocs, reattempts,
                    lastHandled >>
    /\ UNCHANGED pipeVars
    /\ UNCHANGED provVars

\* The attempt failed or the link was lost: WIFI_EVENT_STA_DISCONNECTED is posted.
RadioFail ==
    /\ radio \in {"connecting", "associated", "connected"}
    /\ radio' = "idle"
    /\ evq' = Append(evq, WIFI_EVENT_STA_DISCONNECTED)
    /\ UNCHANGED << creds, certLen, pc, sntp_attempts, connection_state, led,
                    wifi_retry_count, provisioning_mode, scanning_mode, bits,
                    mqtt_client, portal, session, disassocs, reattempts,
                    lastHandled >>
    /\ UNCHANGED pipeVars
    /\ UNCHANGED provVars

\* ------------------------------------------------------------------------
\* wifi_event_handler, run by the event loop task on the head of its queue
\* ------------------------------------------------------------------------
\* case WIFI_EVENT_STA_START
StaStartConnects == ~provisioning_mode /\ ~scanning_mode

OnStaStart ==
    /\ radio' = IF StaStartConnects THEN esp_wifi_connect(radio) ELSE radio
    /\ lastHandled' = [ev |-> WIFI_EVENT_STA_START, prov |-> provisioning_mode,
                       connect |-> StaStartConnects, retry |-> wifi_retry_count]
    /\ UNCHANGED << connection_state, led, wifi_retry_count, bits, disassocs,
                    reattempts >>

\* case WIFI_EVENT_STA_DISCONNECTED: the retry test made after the increment
RetryAllowed(count) == count < WIFI_RETRY_MAX

\* case WIFI_EVENT_STA_DISCONNECTED: the guard of the retry block
RetryBlockEntered_Unguarded == TRUE

RetryBlockEntered == ~provisioning_mode

OnStaDisconnected ==
    /\ update_connection_indicator(CONN_STATE_DISCONNECTED)
    /\ disassocs' = disassocs + 1
    /\ IF RetryBlockEntered
       THEN /\ wifi_retry_count' = wifi_retry_count + 1
            /\ IF RetryAllowed(wifi_retry_count')
               THEN /\ radio' = esp_wifi_connect(radio)
                    /\ reattempts' = reattempts + 1
                    /\ bits' = bits \ {WIFI_CONNECTED_BIT}
               ELSE /\ bits' = (bits \ {WIFI_CONNECTED_BIT}) \cup {WIFI_FAIL_BIT}
                    /\ UNCHANGED << radio, reattempts >>
       ELSE /\ bits' = bits \ {WIFI_CONNECTED_BIT}
            /\ UNCHANGED << wifi_retry_count, radio, reattempts >>
    /\ lastHandled' = [ev |-> WIFI_EVENT_STA_DISCONNECTED, prov |-> provisioning_mode,
                       connect |-> (reattempts' # reattempts),
                       retry |-> wifi_retry_count']

\* IP_EVENT / IP_EVENT_STA_GOT_IP
OnGotIp ==
    /\ wifi_retry_count' = 0
    /\ bits' = bits \cup {WIFI_CONNECTED_BIT}
    /\ update_connection_indicator(CONN_STATE_WIFI_CONNECTED)
    /\ disassocs' = 0
    /\ reattempts' = 0
    /\ lastHandled' = [ev |-> IP_EVENT_STA_GOT_IP, prov |-> provisioning_mode,
                       connect |-> FALSE, retry |-> 0]
    /\ UNCHANGED radio

\* default: (AP events, STA_CONNECTED, ...)
OnOtherEvent(ev) ==
    /\ lastHandled' = [ev |-> ev, prov |-> provisioning_mode, connect |-> FALSE,
                       retry |-> wifi_retry_count]
    /\ UNCHANGED << connection_state, led, wifi_retry_count, bits, radio,
                    disassocs, reattempts >>

wifi_event_handler ==
    /\ evq # << >>
    /\ evq' = Tail(evq)
    /\ LET ev == Head(evq) IN
       CASE ev = WIFI_EVENT_STA_START -> OnStaStart
         [] ev = WIFI_EVENT_STA_DISCONNECTED -> OnStaDisconnected
         [] ev = IP_EVENT_STA_GOT_IP -> OnGotIp
         [] OTHER -> OnOtherEvent(ev)
    /\ UNCHANGED << creds, certLen, pc, sntp_attempts, provisioning_mode,
                    scanning_mode, mqtt_client, portal, session >>
    /\ UNCHANGED pipeVars
    /\ UNCHANGED provVars

\* ------------------------------------------------------------------------
\* Provisioning portal lifecycle: dns_server_start / dns_server_stop,
\* start_captive_portal / stop_captive_portal
\* ------------------------------------------------------------------------
\* dns_server_start(): socketOk, bindOk, taskOk are the outcomes of socket(),
\* bind() and xTaskCreate().  socket() returns the lowest free descriptor.
dns_server_start(socketOk, bindOk, taskOk) ==
    IF dns_running
    THEN UNCHANGED dnsVars
    ELSE IF ~socketOk
    THEN /\ dns_socket' = -1
         /\ UNCHANGED << dns_running, dns_task_handle, openSockets, liveTasks >>
    ELSE IF ~bindOk \/ ~taskOk
    THEN /\ dns_socket' = -1                        \* close(dns_socket)
         /\ dns_running' = FALSE
         /\ UNCHANGED << dns_task_handle, openSockets, liveTasks >>
    ELSE /\ dns_socket' = openSockets
         /\ openSockets' = openSockets + 1
         /\ dns_running' = TRUE
         /\ dns_task_handle' = "task"
         /\ liveTasks' = liveTasks + 1

\* dns_server_stop()
dns_server_stop ==
    IF ~dns_running
    THEN UNCHANGED dnsVars
    ELSE /\ dns_running' = FALSE
         /\ dns_socket' = -1
         /\ openSockets' = IF dns_socket >= 0 THEN openSockets - 1 ELSE openSockets
         /\ dns_task_handle' = "NULL"
         /\ UNCHANGED liveTasks

\* start_captive_portal(): httpdOk is whether httpd_start returned ESP_OK; it
\* stores the new instance's handle in captive_httpd only then.  There is no
\* test of captive_httpd before the call.
start_captive_portal(httpdOk) ==
    IF ~httpdOk
    THEN UNCHANGED httpVars
    ELSE /\ instances' = instances + 1
         /\ captive_httpd' = instances'
         /\ servers' = servers + 1

\* stop_captive_portal()
stop_captive_portal ==
    IF captive_httpd # 0
    THEN /\ servers' = servers - 1                  \* httpd_stop(captive_httpd)
         /\ captive_httpd' = 0
         /\ UNCHANGED instances
    ELSE UNCHANGED httpVars

\* ------------------------------------------------------------------------
\* Main task: app_main and wifi_connect
\* ------------------------------------------------------------------------
has_stored_credentials_Always == TRUE

\* has_stored_credentials(): whether this boot finds a stored network name.
has_stored_credentials == creds

\* wifi_connect, up to the scan: the branch on has_stored_credentials.
WifiConnectBegin ==
    /\ pc = "wifi_connect"
    /\ IF has_stored_credentials
       THEN /\ update_connection_indicator(CONN_STATE_WIFI_CONNECTING)
            /\ scanning_mode' = TRUE
            /\ radio' = "idle"                       \* esp_wifi_set_mode(STA); esp_wifi_start()
            /\ evq' = Append(evq, WIFI_EVENT_STA_START)
            /\ pc' = "scan"
       ELSE /\ pc' = "start_provisioning"
            /\ UNCHANGED << connection_state, led, scanning_mode, radio, evq >>
    /\ UNCHANGED << creds, certLen, sntp_attempts, wifi_retry_count,
                    provisioning_mode, bits, mqtt_client, portal, session,
                    disassocs, reattempts, lastHandled >>
    /\ UNCHANGED pipeVars
    /\ UNCHANGED provVars

\* wifi_scan_networks returns (its outcome is only logged); the first
\* association attempt is issued.
ScanResults == {"scan_failed", "no_networks", "target_found", "target_not_found"}

WifiConnectAttempt_BranchOnScan(scanResult) ==
    /\ pc = "scan"
    /\ scanResult \in ScanResults
    /\ scanning_mode' = FALSE
    /\ IF scanResult = "target_not_found"
       THEN /\ pc' = "start_provisioning"
            /\ UNCHANGED << wifi_retry_count, radio, disassocs, reattempts >>
       ELSE /\ wifi_retry_count' = 0
            /\ radio' = esp_wifi_connect(radio)
            /\ disassocs' = 0
            /\ reattempts' = 0
            /\ pc' = "wait_bits"
    /\ UNCHANGED << creds, certLen, sntp_attempts, connection_state, led,
                    provisioning_mode, bits, mqtt_client, portal, evq, session,
                    lastHandled >>
    /\ UNCHANGED pipeVars
    /\ UNCHANGED provVars

WifiConnectAttempt(scanResult) ==
    /\ pc = "scan"
    /\ scanResult \in ScanResults
    /\ scanning_mode' = FALSE
    /\ wifi_retry_count' = 0
    /\ radio' = esp_wifi_connect(radio)
    /\ disassocs' = 0
    /\ reattempts' = 0
    /\ pc' = "wait_bits"
    /\ UNCHANGED << creds, certLen, sntp_attempts, connection_state, led,
                    provisioning_mode, bits, mqtt_client, portal, evq, session,
                    lastHandled >>
    /\ UNCHANGED pipeVars
    /\ UNCHANGED provVars

\* xEventGroupWaitBits(wifi_event_group, WIFI_CONNECTED_BIT | WIFI_FAIL_BIT,
\* pdFALSE, pdFALSE, pdMS_TO_TICKS(WIFI_CONNECT_TIMEOUT_MS)) returns when one
\* of the two bits is set or when the timeout has elapsed.
xEventGroupWaitBits_NoTimeout(b, timedOut) ==
    b \cap {WIFI_CONNECTED_BIT, WIFI_FAIL_BIT} # {}

xEventGroupWaitBits(b, timedOut) ==
    b \cap {WIFI_CONNECTED_BIT, WIFI_FAIL_BIT} # {} \/ timedOut

\* The wait of wifi_connect returns.  Without the connected bit wifi_connect
\* stops the station.
WifiConnectWaitReturns(timedOut) ==
    /\ pc = "wait_bits"
    /\ xEventGroupWaitBits(bits, timedOut)
    /\ IF WIFI_CONNECTED_BIT \in bits
       THEN /\ pc' = "sntp"
            /\ UNCHANGED << radio, evq >>
       ELSE /\ radio' = "off"                        \* esp_wifi_stop()
            /\ evq' = evq \o StopEvents(radio)
            /\ pc' = "start_provisioning"
    /\ UNCHANGED << creds, certLen, sntp_attempts, connection_state, led,
                    wifi_retry_count, provisioning_mode, scanning_mode, bits,
                    mqtt_client, portal, session, disassocs, reattempts,
                    lastHandled >>
    /\ UNCHANGED pipeVars
    /\ UNCHANGED provVars

\* start_provisioning, first statements.
StartProvisioningSetMode ==
    /\ pc = "start_provisioning"
    /\ provisioning_mode' = TRUE
    /\ wifi_retry_count' = 0
    /\ pc' = "start_portal"
    /\ UNCHANGED << creds, certLen, sntp_attempts, connection_state, led,
                    scanning_mode, bits, mqtt_client, portal, radio, evq, session,
                    disassocs, reattempts, lastHandled >>
    /\ UNCHANGED pipeVars
    /\ UNCHANGED provVars

\* start_provisioning, the rest: indicator, SoftAP, DNS and HTTP servers; then
\* wifi_connect stays in its while (1) loop.
StartProvisioningPortal(socketOk, bindOk, taskOk, httpdOk) ==
    /\ pc = "start_portal"
    /\ update_connection_indicator(CONN_STATE_WIFI_PROVISIONING)
    /\ radio' = "ap"
    /\ evq' = Append(evq, WIFI_EVENT_AP_START)
    /\ dns_server_start(socketOk, bindOk, taskOk)
    /\ start_captive_portal(httpdOk)
    /\ portal' = TRUE
    /\ pc' = "provisioning_loop"
    /\ UNCHANGED << creds, certLen, sntp_attempts, wifi_retry_count,
                    provisioning_mode, scanning_mode, bits, mqtt_client, session,
                    disassocs, reattempts, lastHandled >>
    /\ UNCHANGED pipeVars
    /\ UNCHANGED << decodeVars, dgVars, callVars, saveVars >>

\* app_main: while (!obtain_time() && sntp_attempts < SNTP_RETRY_COUNT)
ObtainTime(ok) ==
    /\ pc = "sntp"
    /\ IF ~ok /\ sntp_attempts < SNTP_RETRY_COUNT
       THEN /\ sntp_attempts' = sntp_attempts + 1
            /\ pc' = pc
       ELSE /\ pc' = "mqtt_start"
            /\ UNCHANGED sntp_attempts
    /\ UNCHANGED << creds, certLen, connection_state, led, wifi_retry_count,
                    provisioning_mode, scanning_mode, bits, mqtt_client, portal,
                    radio, evq, session, disassocs, reattempts, lastHandled >>
    /\ UNCHANGED pipeVars
    /\ UNCHANGED provVars

\* app_main, after the loop: if (sntp_attempts >= SNTP_RETRY_COUNT) the
\* failure "Time sync failed after %d attempts" is logged.
SyncFailureReported == sntp_attempts >= SNTP_RETRY_COUNT

\* mqtt_start: if (cert_len < 100 || key_len < 100 || ca_len < 100) return;
CertsPlausible_OffByOne == certLen >= MIN_CERT_LEN - 1

CertsPlausible == certLen >= MIN_CERT_LEN

MqttStart(initOk) ==
    /\ pc = "mqtt_start"
    /\ IF ~CertsPlausible
       THEN UNCHANGED << connection_state, led, mqtt_client, session >>
       ELSE /\ update_connection_indicator(CONN_STATE_MQTT_CONNECTING)
            /\ IF initOk
               THEN mqtt_client' = "started" /\ session' = "connecting"
               ELSE UNCHANGED << mqtt_client, session >>
    /\ pc' = "create_task"
    /\ UNCHANGED << creds, certLen, sntp_attempts, wifi_retry_count,
                    provisioning_mode, scanning_mode, bits, portal, radio, evq,
                    disassocs, reattempts, lastHandled >>
    /\ UNCHANGED pipeVars
    /\ UNCHANGED provVars

\* app_main: xTaskCreate(animation_task, ...), then the idle loop.
CreateAnimationTask ==
    /\ pc = "create_task"
    /\ anim' = "recv"
    /\ pc' = "idle"
    /\ UNCHANGED << creds, certLen, sntp_attempts, connection_state, led,
                    wifi_retry_count, provisioning_mode, scanning_mode, bits,
                    mqtt_client, portal, radio, evq, session, disassocs,
                    reattempts, lastHandled >>
    /\ UNCHANGED << now, last_animation_time, animation_queue, msgs, lastMsg,
                    acceptedAt, sent, delivered >>
    /\ UNCHANGED provVars

\* ------------------------------------------------------------------------
\* mqtt_event_handler (connection events), run by the MQTT task
\* ------------------------------------------------------------------------
MqttEventConnected ==
    /\ session = "connecting"
    /\ radio = "connected"
    /\ session' = "connected"
    /\ update_connection_indicator(CONN_STATE_MQTT_CONNECTED)
    /\ UNCHANGED << creds, certLen, pc, sntp_attempts, wifi_retry_count,
                    provisioning_mode, scanning_mode, bits, mqtt_client, portal,
                    radio, evq, disassocs, reattempts, lastHandled >>
    /\ UNCHANGED pipeVars
    /\ UNCHANGED provVars

\* The session was lost or an attempt failed; esp-mqtt reconnects by itself.
MqttEventDisconnected_Reassociates ==
    /\ session \in {"connecting", "connected"}
    /\ session' = "connecting"
    /\ update_connection_indicator(CONN_STATE_WIFI_CONNECTED)
    /\ wifi_retry_count' = 0
    /\ radio' = esp_wifi_connect(radio)
    /\ UNCHANGED << creds, certLen, pc, sntp_attempts, provisioning_mode,
                    scanning_mode, bits, mqtt_client, portal, evq, disassocs,
                    reattempts, lastHandled >>
    /\ UNCHANGED pipeVars
    /\ UNCHANGED provVars

MqttEventDisconnected ==
    /\ session \in {"connecting", "connected"}
    /\ session' = "connecting"
    /\ update_connection_indicator(CONN_STATE_WIFI_CONNECTED)
    /\ UNCHANGED << creds, certLen, pc, sntp_attempts, wifi_retry_count,
                    provisioning_mode, scanning_mode, bits, mqtt_client, portal,
                    radio, evq, disassocs, reattempts, lastHandled >>
    /\ UNCHANGED pipeVars
    /\ UNCHANGED provVars

\* ------------------------------------------------------------------------
\* The boot: association machine and session manager
\* ------------------------------------------------------------------------
NoEvent == [ev |-> "none", prov |-> FALSE, connect |-> FALSE, retry |-> 0]
NoMsg == [kind |-> "none"]

\* Smallest PEM length of the build: one below and one at the threshold.
CertLens == {MIN_CERT_LEN - 1, MIN_CERT_LEN}

\* State when app_main calls wifi_connect: globals at their initialisers,
\* update_connection_indicator(CONN_STATE_DISCONNECTED) done.
Init ==
    /\ creds \in BOOLEAN
    /\ certLen \in CertLens
    /\ pc = "wifi_connect"
    /\ sntp_attempts = 0
    /\ connection_state = CONN_STATE_DISCONNECTED
    /\ led = LED_RED
    /\ wifi_retry_count = 0
    /\ provisioning_mode = FALSE
    /\ scanning_mode = FALSE
    /\ bits = {}
    /\ mqtt_client = "null"
    /\ portal = FALSE
    /\ radio = "off"
    /\ evq = << >>
    /\ session = "off"
    /\ disassocs = 0
    /\ reattempts = 0
    /\ lastHandled = NoEvent
    /\ now = 0
    /\ last_animation_time = 0
    /\ animation_queue = << >>
    /\ anim = "none"
    /\ msgs = 0
    /\ lastMsg = NoMsg
    /\ acceptedAt = -1
    /\ sent = << >>
    /\ delivered = << >>
    /\ ProvIdle

Next ==
    \/ WifiConnectBegin
    \/ \E r \in ScanResults : WifiConnectAttempt(r)
    \/ \E timedOut \in BOOLEAN : WifiConnectWaitReturns(timedOut)
    \/ StartProvisioningSetMode
    \/ \E socketOk, bindOk, taskOk, httpdOk \in BOOLEAN :
            StartProvisioningPortal(socketOk, bindOk, taskOk, httpdOk)
    \/ \E ok \in BOOLEAN : ObtainTime(ok)
    \/ \E initOk \in BOOLEAN : MqttStart(initOk)
    \/ CreateAnimationTask
    \/ wifi_event_handler
    \/ RadioAssociate
    \/ RadioGotIp
    \/ RadioFail
    \/ MqttEventConnected
    \/ MqttEventDisconnected

Spec == Init /\ [][Next]_vars

\* The same boot with its tasks scheduled: app_main and the event loop task
\* are ready tasks of a preemptive scheduler whenever they have a step to
\* take; every blocking call of app_main on its way (the scan, the wait on
\* the event group, obtain_time's polls) returns after a bounded time.  The
\* Wi-Fi driver's link events and the broker session are not scheduled.
MainTaskStep ==
    \/ WifiConnectBegin
    \/ \E r \in ScanResults : WifiConnectAttempt(r)
    \/ \E timedOut \in BOOLEAN : WifiConnectWaitReturns(timedOut)
    \/ StartProvisioningSetMode
    \/ \E socketOk, bindOk, taskOk, httpdOk \in BOOLEAN :
            StartProvisioningPortal(socketOk, bindOk, taskOk, httpdOk)
    \/ \E ok \in BOOLEAN : ObtainTime(ok)
    \/ \E initOk \in BOOLEAN : MqttStart(initOk)
    \/ CreateAnimationTask

SpecLive ==
    /\ Init
    /\ [][Next]_vars
    /\ WF_vars(MainTaskStep)
    /\ WF_vars(wifi_event_handler)

TypeOK ==
    /\ connection_state \in conn_state_t
    /\ wifi_retry_count \in 0..10
    /\ Len(evq) <= 6

\* ------------------------------------------------------------------------
\* Inbound messages: what cJSON_Parse and cJSON_GetObjectItem give
\* ------------------------------------------------------------------------
\* A payload is the result of cJSON_Parse (parses) and of the five
\* cJSON_GetObjectItem lookups; Absent is the NULL item.  Strings are
\* sequences of characters.  A number is its valuedouble in tenths, or, when
\* its magnitude is 2^31 or more, the side on which it lies (beyond = 1, -1).
Absent == [k |-> "absent"]
JString(str) == [k |-> "string", s |-> str]
JNumber(t) == [k |-> "number", tenths |-> t, beyond |-> 0]
JHugeNumber(side) == [k |-> "number", tenths |-> 0, beyond |-> side]

cJSON_IsString(item) == item.k = "string"
cJSON_IsNumber(item) == item.k = "number"

STR_SALE == << "s", "a", "l", "e" >>
STR_REFUND == << "r", "e", "f", "u", "n", "d" >>
STR_SUCCEEDED == << "s", "u", "c", "c", "e", "e", "d", "e", "d" >>
STR_FAILED == << "f", "a", "i", "l", "e", "d" >>
STR_USD == << "U", "S", "D" >>
STR_E1 == << "e", "1" >>
STR_500 == << "5", "0", "0" >>
\* One character more than the event's field can hold.
STR_LONG_CURRENCY == [i \in 1..CURRENCY_SIZE |-> "C"]
STR_LONG_EVENT_ID == [i \in 1..EVENT_ID_SIZE |-> "x"]

Payload(parses, type, status, amount, currency, eventId) ==
    [parses |-> parses, type |-> type, status |-> status, amount |-> amount,
     currency |-> currency, eventId |-> eventId]

\* not JSON at all
P_MALFORMED == Payload(FALSE, Absent, Absent, Absent, Absent, Absent)
\* {"type":"sale","amount":500,"currency":"USD","eventId":"e1"}
P_SALE == Payload(TRUE, JString(STR_SALE), Absent, JNumber(5000), JString(STR_USD),
                  JString(STR_E1))
\* {"type":"sale","status":"succeeded","amount":-12.7,"currency":"CCCCCCCC","eventId":"xx..x"}
P_SALE_SUCCEEDED_LONG ==
    Payload(TRUE, JString(STR_SALE), JString(STR_SUCCEEDED), JNumber(-127),
            JString(STR_LONG_CURRENCY), JString(STR_LONG_EVENT_ID))
\* {"type":"sale","status":"failed","amount":500,"currency":"USD","eventId":"e1"}
P_SALE_FAILED ==
    Payload(TRUE, JString(STR_SALE), JString(STR_FAILED), JNumber(5000),
            JString(STR_USD), JString(STR_E1))
\* {"type":"sale","status":0,"amount":"500","eventId":7}
P_SALE_WRONG_TYPES ==
    Payload(TRUE, JString(STR_SALE), JNumber(0), JString(STR_500), Absent, JNumber(70))
\* {"type":"refund","amount":500,"currency":"USD","eventId":"e1"}
P_REFUND == Payload(TRUE, JString(STR_REFUND), Absent, JNumber(5000), JString(STR_USD),
                    JString(STR_E1))
\* {"amount":500} or a JSON value that is no object
P_NO_TYPE == Payload(TRUE, Absent, Absent, JNumber(5000), Absent, Absent)
\* {"type":"sale","amount":2147483648}
P_SALE_HUGE == Payload(TRUE, JString(STR_SALE), Absent, JHugeNumber(1), Absent, Absent)

\* {"type":1,"amount":500,"currency":"USD","eventId":"e1"}
P_TYPE_NUMBER == Payload(TRUE, JNumber(10), Absent, JNumber(5000), JString(STR_USD),
                         JString(STR_E1))

Payloads ==
    { P_MALFORMED, P_SALE, P_SALE_SUCCEEDED_LONG, P_SALE_FAILED, P_SALE_WRONG_TYPES,
      P_REFUND, P_NO_TYPE, P_SALE_HUGE, P_TYPE_NUMBER }

\* ------------------------------------------------------------------------
\* handle_mqtt_message
\* ------------------------------------------------------------------------
sale_event_t(amount, currency, event_id) ==
    [amount |-> amount, currency |-> currency, event_id |-> event_id]

\* sale_event_t event = {0};
ZeroEvent == sale_event_t(0, << >>, << >>)

\* The debounce test on the receive time.
Debounced_OffByOne(t, last) == t - last <= ANIMATION_DEBOUNCE_MS

Debounced(t, last) == t - last < ANIMATION_DEBOUNCE_MS

\* strncpy(dst, src, size - 1) into a zeroed field of `size` bytes.
strncpy_Whole(src, size) == src

strncpy_FullSize(src, size) ==
    IF Len(src) <= size THEN src ELSE SubSeq(src, 1, size)

strncpy(src, size) ==
    IF Len(src) <= size - 1 THEN src ELSE SubSeq(src, 1, size - 1)

\* (int32_t)valuedouble: the fraction is discarded (toward zero); a value
\* outside the int32 range is undefined behaviour, here saturation to either end.
TruncTowardZero(t) == IF t >= 0 THEN t \div 10 ELSE -((-t) \div 10)

INT32_MIN == -INT32_MAX - 1

Int32Cast(item) ==
    IF item.beyond = 0
    THEN { TruncTowardZero(item.tenths) }
    ELSE { INT32_MAX, INT32_MIN }

\* The amounts event.amount can end with for a payload.
Amounts(p) == IF cJSON_IsNumber(p.amount) THEN Int32Cast(p.amount) ELSE {0}

\* if (cJSON_IsString(type) && strcmp(type->valuestring, "sale") == 0)
IsSale(p) == cJSON_IsString(p.type) /\ p.type.s = STR_SALE

\* if (!status || !cJSON_IsString(status) || strcmp(status->valuestring, "succeeded") == 0)
StatusAccepted_AnyStatus(p) == TRUE

StatusAccepted(p) ==
    \/ p.status = Absent
    \/ ~cJSON_IsString(p.status)
    \/ p.status.s = STR_SUCCEEDED

\* The value of `trigger` after the parse.
Trigger_AnyType(p) == IF p.parses THEN StatusAccepted(p) ELSE TRUE

Trigger_RejectMalformed(p) == p.parses /\ IsSale(p) /\ StatusAccepted(p)

Trigger(p) == IF p.parses THEN IsSale(p) /\ StatusAccepted(p) ELSE TRUE

\* The event built from a payload; a is the outcome of the amount cast.
BuildEvent(p, a) ==
    IF p.parses /\ IsSale(p) /\ StatusAccepted(p)
    THEN sale_event_t(
            a,
            IF cJSON_IsString(p.currency) THEN strncpy(p.currency.s, CURRENCY_SIZE)
                                          ELSE << >>,
            IF cJSON_IsString(p.eventId) THEN strncpy(p.eventId.s, EVENT_ID_SIZE)
                                         ELSE << >>)
    ELSE ZeroEvent

\* xQueueSend(animation_queue, &event, 0): no wait; a full queue refuses.
xQueueSend_Overwrite(q, e) ==
    IF Len(q) < QUEUE_LENGTH THEN Append(q, e) ELSE Append(Tail(q), e)

xQueueSend(q, e) == IF Len(q) < QUEUE_LENGTH THEN Append(q, e) ELSE q

\* What is kept of the call before the last one.
Brief(m) ==
    IF m.kind = "msg"
    THEN [kind |-> "msg", p |-> m.p, t |-> m.t, debounced |-> m.debounced,
          trigger |-> m.trigger]
    ELSE [kind |-> "none"]

\* handle_mqtt_message(data, data_len), called by mqtt_event_handler on
\* MQTT_EVENT_DATA; d is the time since the previous call, a the cast outcome.
handle_mqtt_message_DiscardRestartsWindow(p, d, a) ==
    /\ session = "connected"
    /\ a \in Amounts(p)
    /\ now' = now + d
    /\ msgs' = msgs + 1
    /\ IF Debounced(now', last_animation_time)
       THEN /\ last_animation_time' = now'
            /\ lastMsg' = [kind |-> "msg", p |-> p, t |-> now', prevAccept |-> acceptedAt,
                           last |-> last_animation_time, qlen |-> Len(animation_queue),
                           debounced |-> TRUE, trigger |-> FALSE, enq |-> << >>,
                           grew |-> 0, before |-> Brief(lastMsg)]
            /\ UNCHANGED << animation_queue, acceptedAt, sent >>
       ELSE IF Trigger(p)
       THEN /\ last_animation_time' = now'
            /\ animation_queue' = xQueueSend(animation_queue, BuildEvent(p, a))
            /\ acceptedAt' = now'
            /\ sent' = IF animation_queue' # animation_queue
                       THEN Append(sent, animation_queue'[Len(animation_queue')])
                       ELSE sent
            /\ lastMsg' = [kind |-> "msg", p |-> p, t |-> now', prevAccept |-> acceptedAt,
                           last |-> last_animation_time, qlen |-> Len(animation_queue),
                           debounced |-> FALSE, trigger |-> TRUE,
                           enq |-> IF animation_queue' # animation_queue
                                   THEN << animation_queue'[Len(animation_queue')] >>
                                   ELSE << >>,
                           grew |-> Len(animation_queue') - Len(animation_queue),
                           before |-> Brief(lastMsg)]
       ELSE /\ lastMsg' = [kind |-> "msg", p |-> p, t |-> now', prevAccept |-> acceptedAt,
                           last |-> last_animation_time, qlen |-> Len(animation_queue),
                           debounced |-> FALSE, trigger |-> FALSE, enq |-> << >>,
                           grew |-> 0, before |-> Brief(lastMsg)]
            /\ UNCHANGED << last_animation_time, animation_queue, acceptedAt, sent >>
    /\ UNCHANGED << anim, delivered >>
    /\ UNCHANGED connVars
    /\ UNCHANGED provVars

handle_mqtt_message(p, d, a) ==
    /\ session = "connected"
    /\ a \in Amounts(p)
    /\ now' = now + d
    /\ msgs' = msgs + 1
    /\ IF Debounced(now', last_animation_time)
       THEN /\ lastMsg' = [kind |-> "msg", p |-> p, t |-> now', prevAccept |-> acceptedAt,
                           last |-> last_animation_time, qlen |-> Len(animation_queue),
                           debounced |-> TRUE, trigger |-> FALSE, enq |-> << >>,
                           grew |-> 0, before |-> Brief(lastMsg)]
            /\ UNCHANGED << last_animation_time, animation_queue, acceptedAt, sent >>
       ELSE IF Trigger(p)
       THEN /\ last_animation_time' = now'
            /\ animation_queue' = xQueueSend(animation_queue, BuildEvent(p, a))
            /\ acceptedAt' = now'
            /\ sent' = IF animation_queue' # animation_queue
                       THEN Append(sent, animation_queue'[Len(animation_queue')])
                       ELSE sent
            /\ lastMsg' = [kind |-> "msg", p |-> p, t |-> now', prevAccept |-> acceptedAt,
                           last |-> last_animation_time, qlen |-> Len(animation_queue),
                           debounced |-> FALSE, trigger |-> TRUE,
                           enq |-> IF animation_queue' # animation_queue
                                   THEN << animation_queue'[Len(animation_queue')] >>
                                   ELSE << >>,
                           grew |-> Len(animation_queue') - Len(animation_queue),
                           before |-> Brief(lastMsg)]
       ELSE /\ lastMsg' = [kind |-> "msg", p |-> p, t |-> now', prevAccept |-> acceptedAt,
                           last |-> last_animation_time, qlen |-> Len(animation_queue),
                           debounced |-> FALSE, trigger |-> FALSE, enq |-> << >>,
                           grew |-> 0, before |-> Brief(lastMsg)]
            /\ UNCHANGED << last_animation_time, animation_queue, acceptedAt, sent >>
    /\ UNCHANGED << anim, delivered >>
    /\ UNCHANGED connVars
    /\ UNCHANGED provVars

\* ------------------------------------------------------------------------
\* animation_task and trigger_sale_animation
\* ------------------------------------------------------------------------
\* The queue's receive side: the oldest item.
xQueueReceive_Newest(q) == [item |-> q[Len(q)], rest |-> SubSeq(q, 1, Len(q) - 1)]

xQueueReceive(q) == [item |-> Head(q), rest |-> Tail(q)]

\* xQueueReceive returned an event; trigger_sale_animation starts (phase 1).
AnimationReceive ==
    /\ anim = "recv"
    /\ animation_queue # << >>
    /\ animation_queue' = xQueueReceive(animation_queue).rest
    /\ delivered' = Append(delivered, xQueueReceive(animation_queue).item)
    /\ led' = LED_SALE
    /\ anim' = "celebrate"
    /\ UNCHANGED << creds, certLen, pc, sntp_attempts, connection_state,
                    wifi_retry_count, provisioning_mode, scanning_mode, bits,
                    mqtt_client, portal, radio, evq, session, disassocs,
                    reattempts, lastHandled >>
    /\ UNCHANGED << now, last_animation_time, msgs, lastMsg, acceptedAt, sent >>
    /\ UNCHANGED provVars

\* trigger_sale_animation, phase 2.
AnimationSuccess ==
    /\ anim = "celebrate"
    /\ led' = LED_SUCCESS
    /\ anim' = "success"
    /\ UNCHANGED << creds, certLen, pc, sntp_attempts, connection_state,
                    wifi_retry_count, provisioning_mode, scanning_mode, bits,
                    mqtt_client, portal, radio, evq, session, disassocs,
                    reattempts, lastHandled >>
    /\ UNCHANGED << now, last_animation_time, animation_queue, msgs, lastMsg,
                    acceptedAt, sent, delivered >>
    /\ UNCHANGED provVars

\* trigger_sale_animation, phase 3: the LED goes back to an idle colour.
AnimationFinish ==
    /\ anim = "success"
    /\ led' = IF connection_state = CONN_STATE_MQTT_CONNECTED THEN LED_GREEN ELSE LED_CYAN
    /\ anim' = "recv"
    /\ UNCHANGED << creds, certLen, pc, sntp_attempts, connection_state,
                    wifi_retry_count, provisioning_mode, scanning_mode, bits,
                    mqtt_client, portal, radio, evq, session, disassocs,
                    reattempts, lastHandled >>
    /\ UNCHANGED << now, last_animation_time, animation_queue, msgs, lastMsg,
                    acceptedAt, sent, delivered >>
    /\ UNCHANGED provVars

\* ------------------------------------------------------------------------
\* The pipeline on an established session
\* ------------------------------------------------------------------------
\* Bounds of the model
MaxMsgs == 3
MaxQueueMsgs == 7

\* Times between two messages: together, just inside and at the debounce window.
Deltas == {0, ANIMATION_DEBOUNCE_MS - 1, ANIMATION_DEBOUNCE_MS}

\* Receive time (ms since boot) at which the session is first up: obtain_time
\* has slept at least one poll period.
StartTimes == {SNTP_POLL_MS, SNTP_POLL_MS + ANIMATION_DEBOUNCE_MS}

\* The boot has reached an established session: address acquired, mqtt_start
\* done, MQTT_EVENT_CONNECTED handled, app_main about to create animation_task.
SessionUp ==
    /\ creds = TRUE
    /\ certLen = MIN_CERT_LEN
    /\ pc = "create_task"
    /\ sntp_attempts = 0
    /\ connection_state = CONN_STATE_MQTT_CONNECTED
    /\ led = LED_GREEN
    /\ wifi_retry_count = 0
    /\ provisioning_mode = FALSE
    /\ scanning_mode = FALSE
    /\ bits = {WIFI_CONNECTED_BIT}
    /\ mqtt_client = "started"
    /\ portal = FALSE
    /\ radio = "connected"
    /\ evq = << >>
    /\ session = "connected"
    /\ disassocs = 0
    /\ reattempts = 0
    /\ lastHandled = [ev |-> IP_EVENT_STA_GOT_IP, prov |-> FALSE, connect |-> FALSE,
                      retry |-> 0]

InitPipe ==
    /\ SessionUp
    /\ now \in StartTimes
    /\ last_animation_time = 0
    /\ animation_queue = << >>
    /\ anim = "none"
    /\ msgs = 0
    /\ lastMsg = NoMsg
    /\ acceptedAt = -1
    /\ sent = << >>
    /\ delivered = << >>
    /\ ProvIdle

\* MQTT_EVENT_DATA with any payload of P, at most max times.
MqttEventData(P, D, max) ==
    /\ msgs < max
    /\ \E p \in P, d \in D : \E a \in Amounts(p) : handle_mqtt_message(p, d, a)

\* Every kind of payload, a few messages.
NextPipe ==
    \/ MqttEventData(Payloads, Deltas, MaxMsgs)
    \/ CreateAnimationTask

SpecPipe == InitPipe /\ [][NextPipe]_vars

\* Two kinds of accepted payload, enough messages to fill the queue, and the
\* consumer task.
QueuePayloads == {P_MALFORMED, P_SALE}
QueueDeltas == {ANIMATION_DEBOUNCE_MS - 1, ANIMATION_DEBOUNCE_MS}

NextQueue ==
    \/ MqttEventData(QueuePayloads, QueueDeltas, MaxQueueMsgs)
    \/ CreateAnimationTask
    \/ AnimationReceive
    \/ AnimationSuccess
    \/ AnimationFinish

SpecQueue == InitPipe /\ [][NextQueue]_vars

\* The same producer and consumer with messages one debounce window apart,
\* and the consumer side scheduled: animation_task (priority 5) and the rest
\* of app_main are ready tasks of a preemptive scheduler, and
\* trigger_sale_animation only sleeps for fixed delays.
NextDeliver ==
    \/ MqttEventData(QueuePayloads, {ANIMATION_DEBOUNCE_MS}, MaxQueueMsgs)
    \/ CreateAnimationTask
    \/ AnimationReceive
    \/ AnimationSuccess
    \/ AnimationFinish

SpecDeliver ==
    /\ InitPipe
    /\ [][NextDeliver]_vars
    /\ WF_vars(CreateAnimationTask)
    /\ WF_vars(AnimationReceive)
    /\ WF_vars(AnimationSuccess)
    /\ WF_vars(AnimationFinish)

\* ------------------------------------------------------------------------
\* Association state machine: properties
\* ------------------------------------------------------------------------

\* C1: in a boot without stored credentials wifi_connect takes ConnectionState
\* from Disconnected to Provisioning; the state is never Associating
\* (CONN_STATE_WIFI_CONNECTING), and once wifi_connect is in its final loop
\* the state is Provisioning with the portal started.
C1_NoCredentialsGoesToProvisioning ==
    ~creds =>
        /\ connection_state \in {CONN_STATE_DISCONNECTED, CONN_STATE_WIFI_PROVISIONING}
        /\ connection_state # CONN_STATE_WIFI_CONNECTING
        /\ pc \in {"wifi_connect", "start_provisioning", "start_portal", "provisioning_loop"}
        /\ (pc = "provisioning_loop") <=> (connection_state = CONN_STATE_WIFI_PROVISIONING)
        /\ (pc = "provisioning_loop") => portal

C1_Witness ==
    /\ ~creds
    /\ pc = "provisioning_loop"
    /\ connection_state = CONN_STATE_WIFI_PROVISIONING

\* C2 (as claimed): with max retries = 2 the first and the second consecutive
\* disassociation each issue a new association attempt, and only the third
\* one gives up: a disassociation handled outside provisioning mode
\* re-attempts exactly when it is at most the WIFI_RETRY_MAX-th in a row.
C2_FallbackOnThirdDisassociation ==
    (lastHandled.ev = WIFI_EVENT_STA_DISCONNECTED /\ ~lastHandled.prov) =>
        (lastHandled.connect <=> disassocs <= WIFI_RETRY_MAX)

\* C3 (as claimed): Provisioning is a trapdoor; no step of the boot takes
\* ConnectionState from Provisioning to another value.
C3_ProvisioningIsTrapdoor ==
    [][connection_state = CONN_STATE_WIFI_PROVISIONING
        => connection_state' = CONN_STATE_WIFI_PROVISIONING]_vars

\* C4: while provisioning_mode is set, the event handler issues no
\* association attempt on STA_START or STA_DISCONNECTED and leaves the retry
\* counter alone.
C4_NoAutoConnectInProvisioning ==
    [][(/\ provisioning_mode
        /\ evq # << >>
        /\ evq' = Tail(evq)
        /\ Head(evq) \in {WIFI_EVENT_STA_START, WIFI_EVENT_STA_DISCONNECTED})
       => (/\ ~lastHandled'.connect
           /\ reattempts' = reattempts
           /\ radio' = radio
           /\ wifi_retry_count' = wifi_retry_count)]_vars

C4_Witness ==
    /\ provisioning_mode
    /\ lastHandled.prov
    /\ lastHandled.ev = WIFI_EVENT_STA_DISCONNECTED

\* ------------------------------------------------------------------------
\* Inbound event pipeline and event queue: properties
\* ------------------------------------------------------------------------
\* The payloads of the model that the parse step accepts as a trigger.
AcceptedPayloads ==
    { P_MALFORMED, P_SALE, P_SALE_SUCCEEDED_LONG, P_SALE_WRONG_TYPES, P_SALE_HUGE }

\* The call was made 1000 ms or more after the time the debounce gate holds.
OutsideWindow(m) == m.t - m.last >= 1000

SaleHandled(m) ==
    /\ m.kind = "msg"
    /\ m.p.parses
    /\ m.p.type = JString(STR_SALE)
    /\ OutsideWindow(m)

\* C7 (as claimed): a sale message is accepted if and only if its status is
\* absent or equals "succeeded".
C7_SaleIffAbsentOrSucceeded ==
    SaleHandled(lastMsg) =>
        (lastMsg.trigger <=>
            (lastMsg.p.status = Absent \/ lastMsg.p.status = JString(STR_SUCCEEDED)))

\* C7 (amended): a sale message is accepted if and only if its status is
\* absent, is not a string, or equals "succeeded"; a sale with another string
\* as status enqueues nothing.
C7_SaleIffStatusNotOtherString ==
    SaleHandled(lastMsg) =>
        /\ lastMsg.trigger <=>
            (\/ lastMsg.p.status = Absent
             \/ lastMsg.p.status.k # "string"
             \/ lastMsg.p.status = JString(STR_SUCCEEDED))
        /\ (lastMsg.p.status.k = "string" /\ lastMsg.p.status # JString(STR_SUCCEEDED))
                => (lastMsg.grew = 0 /\ lastMsg.enq = << >>)

C7_Witness ==
    /\ SaleHandled(lastMsg)
    /\ lastMsg.p.status = JString(STR_FAILED)
    /\ ~lastMsg.trigger
    /\ lastMsg.enq = << >>

\* A sale message that was accepted and enqueued.
SaleEnqueued(m) ==
    /\ SaleHandled(m)
    /\ m.trigger
    /\ m.enq # << >>

\* x is the first n characters of src (all of src when it is shorter).
IsPrefixOfLen(x, src, n) ==
    /\ Len(x) = (IF Len(src) <= n THEN Len(src) ELSE n)
    /\ \A i \in 1..Len(x) : x[i] = src[i]

\* a is the number of tenths t with its fraction discarded.
IsTruncation(a, t) ==
    /\ t >= 0 => (10 * a <= t /\ t < 10 * a + 10)
    /\ t < 0 => (t <= 10 * a /\ 10 * a - 10 < t)

C9_FullQueueDrops ==
    [][(msgs' = msgs + 1 /\ Len(animation_queue) = 5)
        => (animation_queue' = animation_queue /\ sent' = sent)]_vars

C9_Witness ==
    /\ lastMsg.kind = "msg"
    /\ lastMsg.qlen = 5
    /\ lastMsg.trigger
    /\ lastMsg.grew = 0
    /\ Len(animation_queue) = 5

\* C10: the events given to trigger_sale_animation, followed by the events
\* still queued, are exactly the events enqueued, in the order of enqueueing
\* (no event is handed over twice, skipped or reordered), and the n-th event
\* enqueued is eventually handed over, whatever the interleaving of the
\* session task and the consumer task.
C10_DeliveredInOrderOnce ==
    /\ [](delivered \o animation_queue = sent)
    /\ \A n \in 1..MaxQueueMsgs : (Len(sent) >= n) ~> (Len(delivered) >= n)

C10_Witness ==
    /\ Len(delivered) >= 2
    /\ delivered[1] # delivered[2]
    /\ animation_queue # << >>
    /\ anim = "recv"

\* ------------------------------------------------------------------------
\* Form-field decoding: url_decode_pass1, html_entity_decode, encode_utf8
\* ------------------------------------------------------------------------
\* Bytes are numbers 0..255; a C string is its bytes before the terminator.
NUL == 0
CH_SPACE == 32
CH_HASH == 35
CH_PERCENT == 37
CH_AMP == 38
CH_PLUS == 43
CH_MINUS == 45
CH_SEMI == 59
CH_0 == 48
CH_9 == 57
CH_A == 65
CH_F == 70
CH_X == 88
CH_a == 97
CH_f == 102
CH_x == 120

\* char temp[256] of url_decode; char ssid[64], pass[64] of captive_save_handler
TEMP_SIZE == 256
FIELD_SIZE == 64

\* First code point encode_utf8 has no encoding for.
UNICODE_END == 1114112

\* s[i - 1] of a C string: the byte, and the terminator right after the last.
At(str, i) == IF i \in 1..Len(str) THEN str[i] ELSE NUL

Max(a, b) == IF a >= b THEN a ELSE b

\* What a buffer holds as a C string: the bytes before the first NUL.
RECURSIVE CString(_)
CString(buf) ==
    IF buf = << >> \/ Head(buf) = NUL THEN << >>
    ELSE << Head(buf) >> \o CString(Tail(buf))

isdigit(c) == c >= CH_0 /\ c <= CH_9

\* (*end >= '0' && *end <= '9') || (*end >= 'a' && *end <= 'f') || (*end >= 'A' && *end <= 'F')
isxdigit(c) ==
    \/ (c >= CH_0 /\ c <= CH_9)
    \/ (c >= CH_a /\ c <= CH_f)
    \/ (c >= CH_A /\ c <= CH_F)

\* isspace of the C locale: space, \t \n \v \f \r
isspace(c) == c = CH_SPACE \/ (c >= 9 /\ c <= 13)

DigitVal(c) ==
    IF c >= CH_0 /\ c <= CH_9 THEN c - CH_0
    ELSE IF c >= CH_a /\ c <= CH_f THEN c - CH_a + 10
    ELSE c - CH_A + 10

\* strtol(hex, NULL, 16) on the two bytes after '%': optional white space,
\* optional sign, then the hexadecimal digits it finds (none: 0).
strtol(h1, h2) ==
    IF isxdigit(h1)
    THEN (IF isxdigit(h2) THEN 16 * DigitVal(h1) + DigitVal(h2) ELSE DigitVal(h1))
    ELSE IF isspace(h1) \/ h1 = CH_PLUS
    THEN (IF isxdigit(h2) THEN DigitVal(h2) ELSE 0)
    ELSE IF h1 = CH_MINUS
    THEN (IF isxdigit(h2) THEN -DigitVal(h2) ELSE 0)
    ELSE 0

\* (char) of a long, as the byte stored
CharCast(v) == (v + 256) % 256

\* Index of the furthest byte one iteration of url_decode_pass1 reads.
Pass1Reads(str, i) ==
    IF At(str, i) = CH_PERCENT
    THEN (IF At(str, i + 1) = NUL THEN i + 1 ELSE i + 2)
    ELSE i

\* *s == '%' && s[1] && s[2]
IsEscape(str, i) ==
    At(str, i) = CH_PERCENT /\ At(str, i + 1) # NUL /\ At(str, i + 2) # NUL

\* One iteration of the while loop of url_decode_pass1.
Pass1Step ==
    /\ dpc = "pass1"
    /\ At(raw, si) # NUL
    /\ remaining > 0
    /\ IF At(raw, si) = CH_PLUS
       THEN out' = Append(out, CH_SPACE) /\ si' = si + 1
       ELSE IF IsEscape(raw, si)
       THEN /\ out' = Append(out, CharCast(strtol(At(raw, si + 1), At(raw, si + 2))))
            /\ si' = si + 3
       ELSE out' = Append(out, At(raw, si)) /\ si' = si + 1
    /\ remaining' = remaining - 1
    /\ maxRead' = Max(maxRead, Pass1Reads(raw, si))
    /\ readPast' = (readPast \/ maxRead' > Len(raw) + 1)
    /\ UNCHANGED << text, raw, cap1, cap2, dpc, temp, dst, wrote1, wrote2 >>
    /\ UNCHANGED << connVars, pipeVars, dnsVars, httpVars, dgVars, callVars >>
    /\ UNCHANGED saveVars

\* The loop of url_decode_pass1 ends: *d = '\0'; url_decode calls
\* html_entity_decode(dst, temp, dst_size).
Pass1Return ==
    /\ dpc = "pass1"
    /\ (At(raw, si) = NUL \/ remaining = 0)
    /\ temp' = CString(out)
    /\ wrote1' = Len(out) + 1
    /\ readPast' = (readPast \/ Max(maxRead, si) > Len(raw) + 1)
    /\ dpc' = "pass2"
    /\ si' = 1
    /\ out' = << >>
    /\ remaining' = cap2 - 1
    /\ maxRead' = 0
    /\ UNCHANGED << text, raw, cap1, cap2, dst, wrote2 >>
    /\ UNCHANGED << connVars, pipeVars, dnsVars, httpVars, dgVars, callVars >>
    /\ UNCHANGED saveVars

\* encode_utf8(codepoint, out): the bytes written (none when it returns 0).
encode_utf8_WrongShift(codepoint) ==
    IF codepoint < 128 THEN << codepoint >>
    ELSE IF codepoint < 2048
    THEN << 192 + (codepoint \div 64), 128 + (codepoint % 64) >>
    ELSE IF codepoint < 65536
    THEN << 224 + (codepoint \div 4096), 128 + ((codepoint \div 64) % 64),
            128 + (codepoint % 64) >>
    ELSE IF codepoint < UNICODE_END
    THEN << 240 + (codepoint \div 262144), 128 + ((codepoint \div 64) % 64),
            128 + ((codepoint \div 64) % 64), 128 + (codepoint % 64) >>
    ELSE << >>

encode_utf8(codepoint) ==
    IF codepoint < 128 THEN << codepoint >>
    ELSE IF codepoint < 2048
    THEN << 192 + (codepoint \div 64), 128 + (codepoint % 64) >>
    ELSE IF codepoint < 65536
    THEN << 224 + (codepoint \div 4096), 128 + ((codepoint \div 64) % 64),
            128 + (codepoint % 64) >>
    ELSE IF codepoint < UNICODE_END
    THEN << 240 + (codepoint \div 262144), 128 + ((codepoint \div 4096) % 64),
            128 + ((codepoint \div 64) % 64), 128 + (codepoint % 64) >>
    ELSE << >>

\* while (isxdigit(*end)) end++;  and  while (isdigit(*end)) end++;
RECURSIVE HexRunEnd(_, _)
HexRunEnd(str, i) == IF isxdigit(At(str, i)) THEN HexRunEnd(str, i + 1) ELSE i

RECURSIVE DecRunEnd(_, _)
DecRunEnd(str, i) == IF isdigit(At(str, i)) THEN DecRunEnd(str, i + 1) ELSE i

\* The digits strtoul accumulates from index i in the given base.  A value of
\* UNICODE_END or more (strtoul itself stops growing at ULONG_MAX) is kept as
\* UNICODE_END: encode_utf8 is the only reader and has one answer for them.
RECURSIVE Accumulate(_, _, _, _)
Accumulate(str, i, base, acc) ==
    LET c == At(str, i) IN
    IF (base = 10 /\ isdigit(c)) \/ (base = 16 /\ isxdigit(c))
    THEN LET v == acc * base + DigitVal(c)
         IN  Accumulate(str, i + 1, base, IF v >= UNICODE_END THEN UNICODE_END ELSE v)
    ELSE acc

\* strtoul(start, NULL, base) where str[i] is a digit of the base; in base 16
\* a "0x" that a hexadecimal digit follows is skipped first.
strtoul(str, i, base) ==
    IF /\ base = 16
       /\ At(str, i) = CH_0
       /\ At(str, i + 1) \in {CH_x, CH_X}
       /\ isxdigit(At(str, i + 2))
    THEN Accumulate(str, i + 2, base, 0)
    ELSE Accumulate(str, i, base, 0)

\* The scan html_entity_decode makes after "&#": start is the index of the
\* byte after '#'.  end is where the digits stop, codepoint the value read
\* (0 when there is no digit).
ScanEntity(str, start) ==
    IF At(str, start) \in {CH_x, CH_X}
    THEN LET end == HexRunEnd(str, start + 1)
         IN  [end |-> end,
              codepoint |-> IF end > start + 1 THEN strtoul(str, start + 1, 16) ELSE 0]
    ELSE LET end == DecRunEnd(str, start)
         IN  [end |-> end,
              codepoint |-> IF end > start THEN strtoul(str, start, 10) ELSE 0]

\* if (*s == '&' && s[1] == '#')
IsEntityStart(str, i) == At(str, i) = CH_AMP /\ At(str, i + 1) = CH_HASH

\* if (codepoint > 0 && *end == ';')
EntityValid(str, e) == e.codepoint > 0 /\ At(str, e.end) = CH_SEMI

\* if (len > 0 && (size_t)len <= remaining)
Fits_NoCheck(utf8, rem) == Len(utf8) > 0

Fits(utf8, rem) == Len(utf8) > 0 /\ Len(utf8) <= rem

\* Index of the furthest byte one iteration of html_entity_decode reads.
Pass2Reads(str, i) ==
    IF At(str, i) # CH_AMP THEN i
    ELSE IF At(str, i + 1) # CH_HASH THEN i + 1
    ELSE ScanEntity(str, i + 2).end

\* One iteration of the while loop of html_entity_decode.
Pass2Step ==
    /\ dpc = "pass2"
    /\ At(temp, si) # NUL
    /\ remaining > 0
    /\ LET e == ScanEntity(temp, si + 2)
           utf8 == encode_utf8(e.codepoint)
       IN  IF IsEntityStart(temp, si) /\ EntityValid(temp, e) /\ Fits(utf8, remaining)
           THEN /\ out' = out \o utf8
                /\ remaining' = remaining - Len(utf8)
                /\ si' = e.end + 1
           ELSE /\ out' = Append(out, At(temp, si))
                /\ remaining' = remaining - 1
                /\ si' = si + 1
    /\ maxRead' = Max(maxRead, Pass2Reads(temp, si))
    /\ readPast' = (readPast \/ maxRead' > Len(temp) + 1)
    /\ UNCHANGED << text, raw, cap1, cap2, dpc, temp, dst, wrote1, wrote2 >>
    /\ UNCHANGED << connVars, pipeVars, dnsVars, httpVars, dgVars, callVars >>
    /\ UNCHANGED saveVars

\* The loop of html_entity_decode ends: *d = '\0'; url_decode returns.
Pass2Return ==
    /\ dpc = "pass2"
    /\ (At(temp, si) = NUL \/ remaining = 0)
    /\ dst' = CString(out)
    /\ wrote2' = Len(out) + 1
    /\ readPast' = (readPast \/ Max(maxRead, si) > Len(temp) + 1)
    /\ maxRead' = Max(maxRead, si)
    /\ dpc' = "done"
    /\ UNCHANGED << text, raw, cap1, cap2, si, out, remaining, temp, wrote1 >>
    /\ UNCHANGED << connVars, pipeVars, dnsVars, httpVars, dgVars, callVars >>
    /\ UNCHANGED saveVars

\* ------------------------------------------------------------------------
\* The form: what the browser sends for a field (application/x-www-form-urlencoded)
\* ------------------------------------------------------------------------
HexDigit(v) == IF v < 10 THEN CH_0 + v ELSE CH_A + (v - 10)

\* Bytes the form encoding sends as they are: letters, digits, * - . _
Unreserved(c) ==
    \/ isdigit(c)
    \/ (c >= CH_A /\ c <= 90)
    \/ (c >= CH_a /\ c <= 122)
    \/ c \in {42, 45, 46, 95}

RECURSIVE PercentEncode(_)
PercentEncode(str) ==
    IF str = << >> THEN << >>
    ELSE LET c == Head(str) IN
         (IF Unreserved(c) THEN << c >>
          ELSE IF c = CH_SPACE THEN << CH_PLUS >>
          ELSE << CH_PERCENT, HexDigit(c \div 16), HexDigit(c % 16) >>)
         \o PercentEncode(Tail(str))

\* Pieces the fields of the model are made of.
TOK_a == << 97 >>
TOK_PLUS == << CH_PLUS >>
TOK_PERCENT == << CH_PERCENT >>
\* "%4" and "%41"
TOK_ESC_CUT == << CH_PERCENT, 52 >>
TOK_ESC_A == << CH_PERCENT, 52, 49 >>
TOK_AMP == << CH_AMP >>
TOK_SEMI == << CH_SEMI >>
\* "&#" and "&#x"
TOK_ENT_CUT == << CH_AMP, CH_HASH >>
TOK_ENT_HEX_CUT == << CH_AMP, CH_HASH, CH_x >>
\* "&#65;" and "&#66;"
TOK_ENT_A == << CH_AMP, CH_HASH, 54, 53, CH_SEMI >>
TOK_ENT_B == << CH_AMP, CH_HASH, 54, 54, CH_SEMI >>
\* "&#65"
TOK_ENT_NO_SEMI == << CH_AMP, CH_HASH, 54, 53 >>
\* "&#233;" (two UTF-8 bytes)
TOK_ENT_E_ACUTE == << CH_AMP, CH_HASH, 50, 51, 51, CH_SEMI >>
\* "&#x20aC;" (three UTF-8 bytes)
TOK_ENT_EURO == << CH_AMP, CH_HASH, CH_x, 50, 48, CH_a, 67, CH_SEMI >>
\* "&#X1F600;" (four UTF-8 bytes)
TOK_ENT_GRIN == << CH_AMP, CH_HASH, CH_X, 49, CH_F, 54, 48, 48, CH_SEMI >>
\* "&#0;" and "&#x110000;"
TOK_ENT_ZERO == << CH_AMP, CH_HASH, CH_0, CH_SEMI >>
TOK_ENT_BEYOND == << CH_AMP, CH_HASH, CH_x, 49, 49, 48, 48, 48, 48, CH_SEMI >>

Tokens ==
    { TOK_a, TOK_PLUS, TOK_PERCENT, TOK_ESC_CUT, TOK_ESC_A, TOK_AMP, TOK_SEMI,
      TOK_ENT_CUT, TOK_ENT_HEX_CUT, TOK_ENT_A, TOK_ENT_B, TOK_ENT_NO_SEMI,
      TOK_ENT_E_ACUTE, TOK_ENT_EURO, TOK_ENT_GRIN, TOK_ENT_ZERO, TOK_ENT_BEYOND }

\* Bound of the model: pieces per field
MaxTokens == 2

RECURSIVE Fields(_)
Fields(n) ==
    IF n = 0 THEN { << >> }
    ELSE Fields(n - 1) \cup { f \o k : f \in Fields(n - 1), k \in Tokens }

\* Capacities below the program's, to reach the truncating paths.
SmallCaps == {1, 2, 4}

\* url_decode's own call (temp[256], then a 64-byte field), and each pass
\* with a small destination.
CapPairs ==
    { << TEMP_SIZE, FIELD_SIZE >> }
        \cup { << c, FIELD_SIZE >> : c \in SmallCaps }
        \cup { << TEMP_SIZE, c >> : c \in SmallCaps }

\* wifi_connect is in its while (1) loop with the portal up and the event
\* loop idle.
ProvisioningLoop ==
    /\ pc = "provisioning_loop"
    /\ sntp_attempts = 0
    /\ connection_state = CONN_STATE_WIFI_PROVISIONING
    /\ led = LED_GOLD_DIM
    /\ wifi_retry_count = 0
    /\ provisioning_mode = TRUE
    /\ scanning_mode = FALSE
    /\ bits = {}
    /\ mqtt_client = "null"
    /\ portal = TRUE
    /\ radio = "ap"
    /\ evq = << >>
    /\ session = "off"
    /\ disassocs = 0
    /\ reattempts = 0
    /\ lastHandled = [ev |-> WIFI_EVENT_AP_START, prov |-> TRUE, connect |-> FALSE,
                      retry |-> 0]

\* The boot has reached the provisioning portal: no stored credentials,
\* start_provisioning done, AP_START dispatched, wifi_connect in its loop.
PortalUp ==
    /\ creds = FALSE
    /\ certLen = MIN_CERT_LEN
    /\ ProvisioningLoop

\* No session: the pipeline has seen nothing.
PipeIdle ==
    /\ now = 0
    /\ last_animation_time = 0
    /\ animation_queue = << >>
    /\ anim = "none"
    /\ msgs = 0
    /\ lastMsg = NoMsg
    /\ acceptedAt = -1
    /\ sent = << >>
    /\ delivered = << >>

\* captive_save_handler calls url_decode on a field: either what a browser
\* sends for a typed text, or bytes as a client put them.
InitDecode ==
    /\ PortalUp
    /\ PipeIdle
    /\ text \in Fields(MaxTokens)
    /\ raw \in {PercentEncode(text), text}
    /\ \E caps \in CapPairs : cap1 = caps[1] /\ cap2 = caps[2]
    /\ dpc = "pass1"
    /\ si = 1
    /\ out = << >>
    /\ remaining = cap1 - 1
    /\ temp = << >>
    /\ dst = << >>
    /\ maxRead = 0
    /\ readPast = FALSE
    /\ wrote1 = 0
    /\ wrote2 = 0
    /\ PortalStarted
    /\ PortalUnobserved
    /\ SaveIdle

NextDecode ==
    \/ Pass1Step
    \/ Pass1Return
    \/ Pass2Step
    \/ Pass2Return

SpecDecode == InitDecode /\ [][NextDecode]_vars

\* ------------------------------------------------------------------------
\* Form-field decoding: properties
\* ------------------------------------------------------------------------
\* url_decode as captive_save_handler calls it has returned.
UrlDecodeDone == dpc = "done" /\ cap1 = TEMP_SIZE /\ cap2 = FIELD_SIZE

\* C13 (as claimed): a text sent percent-encoded and decoded by url_decode
\* (both passes) comes out as it was typed.
C13_RoundTrip ==
    (UrlDecodeDone /\ raw = PercentEncode(text)) => dst = text

\* The code points a UTF-8 byte sequence stands for; -1 where it is not UTF-8.
RECURSIVE Utf8CodePoints(_)
Utf8CodePoints(b) ==
    IF b = << >> THEN << >>
    ELSE LET n == IF b[1] < 128 THEN 1
                  ELSE IF b[1] >= 192 /\ b[1] < 224 THEN 2
                  ELSE IF b[1] >= 224 /\ b[1] < 240 THEN 3
                  ELSE IF b[1] >= 240 /\ b[1] < 248 THEN 4
                  ELSE 0
         IN  IF n = 0 \/ Len(b) < n \/ \E k \in 2..n : (b[k] < 128 \/ b[k] >= 192)
             THEN << -1 >>
             ELSE LET cp == CASE n = 1 -> b[1]
                              [] n = 2 -> (b[1] - 192) * 64 + (b[2] - 128)
                              [] n = 3 -> (b[1] - 224) * 4096 + (b[2] - 128) * 64
                                            + (b[3] - 128)
                              [] n = 4 -> (b[1] - 240) * 262144 + (b[2] - 128) * 4096
                                            + (b[3] - 128) * 64 + (b[4] - 128)
                  IN  << cp >> \o Utf8CodePoints(SubSeq(b, n + 1, Len(b)))

RECURSIVE StripZeros(_)
StripZeros(digs) ==
    IF digs # << >> /\ Head(digs) = CH_0 THEN StripZeros(Tail(digs)) ELSE digs

RECURSIVE PositionalValue(_, _)
PositionalValue(digs, base) ==
    IF digs = << >> THEN 0
    ELSE PositionalValue(SubSeq(digs, 1, Len(digs) - 1), base) * base
            + DigitVal(digs[Len(digs)])

\* The number a digit string writes; 7 significant digits already exceed
\* every code point.
NumberWritten(digs, base) ==
    IF Len(StripZeros(digs)) > 7 THEN UNICODE_END
    ELSE PositionalValue(StripZeros(digs), base)

\* The code point of the numeric entity that str[i..j] spells (&#NNN; or
\* &#xHHHH;), 0 when it spells none.
EntityCodePoint(str, i, j) ==
    IF j < i + 3 \/ str[i] # CH_AMP \/ str[i + 1] # CH_HASH \/ str[j] # CH_SEMI THEN 0
    ELSE LET body == SubSeq(str, i + 2, j - 1) IN
         IF \A k \in 1..Len(body) : isdigit(body[k])
         THEN NumberWritten(body, 10)
         ELSE IF /\ Len(body) >= 2
                 /\ body[1] \in {CH_x, CH_X}
                 /\ \A k \in 2..Len(body) : isxdigit(body[k])
         THEN NumberWritten(Tail(body), 16)
         ELSE 0

\* The well-formed entities that begin at i, as the indices of their ';'.
EntitiesAt(str, i) ==
    { j \in i..Len(str) :
        EntityCodePoint(str, i, j) > 0 /\ EntityCodePoint(str, i, j) < UNICODE_END }

\* What the entity pass is to produce, as code points: each well-formed
\* entity its code point, every other byte itself.
RECURSIVE ExpectedCodePoints(_, _)
ExpectedCodePoints(str, i) ==
    IF i > Len(str) THEN << >>
    ELSE IF EntitiesAt(str, i) # {}
    THEN LET j == CHOOSE j \in EntitiesAt(str, i) : TRUE
         IN  << EntityCodePoint(str, i, j) >> \o ExpectedCodePoints(str, j + 1)
    ELSE << str[i] >> \o ExpectedCodePoints(str, i + 1)

\* html_entity_decode has returned and its destination had room for its source.
EntityPassDone ==
    /\ dpc = "done"
    /\ cap2 > Len(temp)
    /\ \A k \in 1..Len(temp) : temp[k] < 128

\* C14: the entity pass replaces every well-formed numeric entity (decimal or
\* hexadecimal, code point 1..0x10FFFF, closed by ';') by the UTF-8 bytes of
\* its code point and copies everything else, malformed entities, code point
\* 0 and unclosed entities included; "&#65;&#66;" gives "AB".
C14_EntitiesToUtf8 ==
    EntityPassDone =>
        /\ Utf8CodePoints(dst) = ExpectedCodePoints(temp, 1)
        /\ (temp = TOK_ENT_A \o TOK_ENT_B => dst = << 65, 66 >>)

C14_Witness ==
    /\ EntityPassDone
    /\ temp = TOK_ENT_EURO \o TOK_ENT_ZERO
    /\ dst = << 226, 130, 172 >> \o TOK_ENT_ZERO

\* C15: for every input and every capacity n >= 1 neither pass reads its
\* source beyond the terminator, each stores at most n - 1 bytes before the
\* NUL, and the NUL lies within the n bytes of the destination.
C15_DecodeStaysInBounds ==
    /\ ~readPast
    /\ remaining >= 0
    /\ dpc = "pass1" => (Len(out) <= cap1 - 1 /\ maxRead <= Len(raw) + 1)
    /\ dpc = "pass2" => (Len(out) <= cap2 - 1 /\ maxRead <= Len(temp) + 1)
    /\ dpc \in {"pass2", "done"} => (wrote1 <= cap1 /\ Len(temp) <= cap1 - 1)
    /\ dpc = "done" => (wrote2 <= cap2 /\ Len(dst) <= cap2 - 1)

C15_Witness ==
    /\ dpc = "done"
    /\ raw = TOK_ENT_E_ACUTE \o TOK_ESC_CUT
    /\ cap2 = 2
    /\ wrote2 = cap2
    /\ dst = << CH_AMP >>

\* ------------------------------------------------------------------------
\* Session manager start: properties
\* ------------------------------------------------------------------------
\* mqtt_start runs and gets as far as starting the session.
SessionStarted ==
    /\ pc = "mqtt_start"
    /\ pc' = "create_task"
    /\ (connection_state' = CONN_STATE_MQTT_CONNECTING \/ mqtt_client' = "started")

\* C19 (as claimed): whenever mqtt_start sets ConnectionState to
\* SessionConnecting or starts the client, ConnectionState is Associated
\* (CONN_STATE_WIFI_CONNECTED) at that moment, whatever network events were
\* handled during the time-sync phase.
C19_SessionStartsOnlyWhenAssociated ==
    [][SessionStarted => connection_state = CONN_STATE_WIFI_CONNECTED]_vars

DNS_HEADER_SIZE == 12
DNS_BUFFER_SIZE == 512
ANSWER_SIZE == 16

captive_ip == << 192, 168, 4, 1 >>

\* if (len < (int)sizeof(dns_header_t)) continue;   (after: if (len < 0) continue;)
HeaderComplete_OffByOne(len) == len >= DNS_HEADER_SIZE - 1

HeaderComplete(len) == len >= DNS_HEADER_SIZE

\* tx_buffer[0 .. len-1] after memcpy and the two header stores:
\* flags = htons(0x8400) at offset 2, ancount = htons(1) at offset 6.
ResponseHeaderAndQuery(data) ==
    [i \in 1..Len(data) |->
        CASE i = 3 -> 132
          [] i = 4 -> 0
          [] i = 7 -> 0
          [] i = 8 -> 1
          [] OTHER -> data[i]]

\* answer[0 .. 15]
AnswerRecord == << 192, 12, 0, 1, 0, 1, 0, 0, 0, 60, 0, 4 >> \o captive_ip

\* The answer is stored at tx_buffer + len with no test against
\* sizeof(tx_buffer): it fits only up to len = 496.
AnswerFits(len) == len + ANSWER_SIZE <= DNS_BUFFER_SIZE

\* Bytes of tx_buffer the iteration stores: the copy of the request, then
\* answer[0..15] at tx_buffer + len.
BytesWritten(len) == len + ANSWER_SIZE

\* A datagram sent from a smashed frame: its bytes and destination are not
\* determined by the program.
Smashed == << -1 >>

\* What sendto can be given for a request.  Beyond 496 bytes the stores and
\* the read of response_len bytes run past tx_buffer into the neighbouring
\* stack objects (undefined behaviour): the datagram is the intended one or not.
Responses(data) ==
    IF AnswerFits(Len(data))
    THEN { ResponseHeaderAndQuery(data) \o AnswerRecord }
    ELSE { ResponseHeaderAndQuery(data) \o AnswerRecord, Smashed }

\* recvfrom results: failure (-1), and lengths around the header size and
\* around the room the answer leaves in tx_buffer.
DatagramLens ==
    { -1, 0, DNS_HEADER_SIZE - 1, DNS_HEADER_SIZE, DNS_HEADER_SIZE + 17,
      DNS_BUFFER_SIZE - ANSWER_SIZE, DNS_BUFFER_SIZE - ANSWER_SIZE + 1,
      DNS_BUFFER_SIZE }

Seeds == {18, 171}

\* The bytes of a received datagram (none for a failed receive).
Datagram(len, seed) ==
    [len |-> len,
     data |-> IF len <= 0 THEN << >> ELSE [i \in 1..len |-> (seed + 7 * i) % 256]]

\* Bounds of the model
MaxDatagrams == 2
MaxCalls == 3

\* One iteration of while (dns_running): recvfrom, the two length tests, the
\* response and sendto.
DnsTaskIteration(len, seed) ==
    /\ liveTasks > 0
    /\ dns_running
    /\ dgCount < MaxDatagrams
    /\ dgCount' = dgCount + 1
    /\ lastRx' = Datagram(len, seed)
    /\ IF len < 0 \/ ~HeaderComplete(len)
       THEN /\ shorts' = shorts + 1
            /\ lastTx' = << >>
            /\ UNCHANGED txCount
       ELSE /\ lastTx' \in Responses(lastRx'.data)
            /\ txCount' = txCount + 1
            /\ UNCHANGED shorts
    /\ UNCHANGED << connVars, pipeVars, decodeVars, dnsVars, httpVars, callVars >>
    /\ UNCHANGED saveVars

\* while (dns_running) is false: vTaskDelete(NULL)
DnsTaskExit ==
    /\ liveTasks > 0
    /\ ~dns_running
    /\ liveTasks' = liveTasks - 1
    /\ UNCHANGED << dns_running, dns_socket, dns_task_handle, openSockets >>
    /\ UNCHANGED << connVars, pipeVars, decodeVars, httpVars, dgVars, callVars >>
    /\ UNCHANGED saveVars

\* ------------------------------------------------------------------------
\* The portal in use: lifecycle calls in any order, and DNS traffic
\* ------------------------------------------------------------------------
Called(fn) ==
    /\ calls < MaxCalls
    /\ calls' = calls + 1
    /\ lastCall' = [fn |-> fn, running |-> dns_running, handle |-> captive_httpd]

CallDnsServerStart(socketOk, bindOk, taskOk) ==
    /\ Called("dns_server_start")
    /\ dns_server_start(socketOk, bindOk, taskOk)
    /\ UNCHANGED << connVars, pipeVars, decodeVars, httpVars, dgVars >>
    /\ UNCHANGED saveVars

CallDnsServerStop ==
    /\ Called("dns_server_stop")
    /\ dns_server_stop
    /\ UNCHANGED << connVars, pipeVars, decodeVars, httpVars, dgVars >>
    /\ UNCHANGED saveVars

CallStartCaptivePortal(httpdOk) ==
    /\ Called("start_captive_portal")
    /\ start_captive_portal(httpdOk)
    /\ UNCHANGED << connVars, pipeVars, decodeVars, dnsVars, dgVars >>
    /\ UNCHANGED saveVars

CallStopCaptivePortal ==
    /\ Called("stop_captive_portal")
    /\ stop_captive_portal
    /\ UNCHANGED << connVars, pipeVars, decodeVars, dnsVars, dgVars >>
    /\ UNCHANGED saveVars

\* start_provisioning has returned with both sub-servers started.
InitPortal ==
    /\ PortalUp
    /\ PipeIdle
    /\ DecodeIdle
    /\ PortalStarted
    /\ PortalUnobserved
    /\ SaveIdle

NextPortal ==
    \/ \E len \in DatagramLens, seed \in Seeds : DnsTaskIteration(len, seed)
    \/ DnsTaskExit
    \/ \E socketOk, bindOk, taskOk \in BOOLEAN :
            CallDnsServerStart(socketOk, bindOk, taskOk)
    \/ CallDnsServerStop
    \/ \E httpdOk \in BOOLEAN : CallStartCaptivePortal(httpdOk)
    \/ CallStopCaptivePortal

SpecPortal == InitPortal /\ [][NextPortal]_vars

C12_ShortDatagramUnanswered ==
    /\ [](txCount + shorts = dgCount)
    /\ [][(dgCount' = dgCount + 1 /\ lastRx'.len < 12) =>
            /\ txCount' = txCount
            /\ lastTx' = << >>
            /\ shorts' = shorts + 1
            /\ liveTasks' = liveTasks
            /\ UNCHANGED << dns_running, dns_socket, dns_task_handle >>]_vars

C12_Witness ==
    /\ dgCount = 2
    /\ shorts = 1
    /\ txCount = 1
    /\ lastRx.len = 12
    /\ Len(lastTx) = 28

\* A lifecycle call is being made.
Calling(fn) == calls' = calls + 1 /\ lastCall'.fn = fn

\* C18 (as claimed): starting a sub-server that is already started and
\* stopping one that is not running change nothing: no second socket, task or
\* HTTP server instance, and the handles as they were.
C18_StartStopIdempotent ==
    [][/\ (Calling("dns_server_start") /\ dns_running) => UNCHANGED dnsVars
       /\ (Calling("dns_server_stop") /\ ~dns_running) => UNCHANGED dnsVars
       /\ (Calling("start_captive_portal") /\ captive_httpd # 0) => UNCHANGED httpVars
       /\ (Calling("stop_captive_portal") /\ captive_httpd = 0) => UNCHANGED httpVars]_vars

\* ------------------------------------------------------------------------
\* captive_save_handler: the save, the restart, and the next boot's load
\* ------------------------------------------------------------------------
Keys == {"ssid", "pass"}

\* The store after the pending values of the given keys reached the flash.
Persist(store, pending, keys) ==
    [k \in Keys |-> IF k \in keys /\ pending[k] # UNSET THEN pending[k] ELSE store[k]]

\* Decoded fields of a POST /save: the name may be missing (empty), the
\* secret empty for an open network.
Forms == { [ssid |-> s, pass |-> q] : s \in {"", "home", "cafe"}, q \in {"", "pw2"} }

\* int ret = httpd_req_recv(req, buf, sizeof(buf) - 1): a socket error
\* (negative), a closed connection or empty body (0), or the bytes received.
RecvResults == {-1, 0, 1, TEMP_SIZE - 1}

\* if (ret <= 0) { httpd_resp_send_err(req, HTTPD_400_BAD_REQUEST, ...); return ESP_FAIL; }
BodyReceived_AllowEmpty(ret) == ret >= 0

BodyReceived(ret) == ret > 0

\* httpd_req_recv: without data the handler answers 400 and returns ESP_FAIL
\* (hpc "rejected"); with data, f is what the parse and url_decode give.
SaveReceive(ret, f) ==
    /\ hpc = "recv"
    /\ IF BodyReceived(ret)
       THEN form' = f /\ hpc' = "nvs_open"
       ELSE hpc' = "rejected" /\ UNCHANGED form
    /\ UNCHANGED << nvs, nvsPending, saved, restarted, loaded >>
    /\ UNCHANGED << connVars, pipeVars, decodeVars, dnsVars, httpVars, dgVars, callVars >>

\* err = nvs_open(NVS_NAMESPACE, NVS_READWRITE, &nvs); the else branch only logs.
SaveOpen(ok) ==
    /\ hpc = "nvs_open"
    /\ saved' = [saved EXCEPT !.opened = ok]
    /\ hpc' = IF ok THEN "set_ssid" ELSE "respond"
    /\ UNCHANGED << nvs, nvsPending, form, restarted, loaded >>
    /\ UNCHANGED << connVars, pipeVars, decodeVars, dnsVars, httpVars, dgVars, callVars >>

\* nvs_set_str(nvs, "wifi_ssid", ssid); the result is not looked at.
SaveSetSsid(ok) ==
    /\ hpc = "set_ssid"
    /\ saved' = [saved EXCEPT !.ssid = ok]
    /\ nvsPending' = IF ok THEN [nvsPending EXCEPT !.ssid = form.ssid] ELSE nvsPending
    /\ hpc' = "set_pass"
    /\ UNCHANGED << nvs, form, restarted, loaded >>
    /\ UNCHANGED << connVars, pipeVars, decodeVars, dnsVars, httpVars, dgVars, callVars >>

\* nvs_set_str(nvs, "wifi_pass", pass); the result is not looked at.
SaveSetPass(ok) ==
    /\ hpc = "set_pass"
    /\ saved' = [saved EXCEPT !.pass = ok]
    /\ nvsPending' = IF ok THEN [nvsPending EXCEPT !.pass = form.pass] ELSE nvsPending
    /\ hpc' = "commit"
    /\ UNCHANGED << nvs, form, restarted, loaded >>
    /\ UNCHANGED << connVars, pipeVars, decodeVars, dnsVars, httpVars, dgVars, callVars >>

\* nvs_commit(nvs); nvs_close(nvs); the result is not looked at.  A commit
\* that succeeds writes what is pending; of one that fails any part may have
\* been written.
SaveCommit(ok, written) ==
    /\ hpc = "commit"
    /\ written \in SUBSET Keys
    /\ ok => written = Keys
    /\ saved' = [saved EXCEPT !.committed = ok]
    /\ nvs' = Persist(nvs, nvsPending, written)
    /\ nvsPending' = NothingPending
    /\ hpc' = "respond"
    /\ UNCHANGED << form, restarted, loaded >>
    /\ UNCHANGED << connVars, pipeVars, decodeVars, dnsVars, httpVars, dgVars, callVars >>

\* httpd_resp_send(success_html); vTaskDelay(1000 ms); esp_restart();
SaveRespondRestart ==
    /\ hpc = "respond"
    /\ restarted' = TRUE
    /\ hpc' = "restarted"
    /\ UNCHANGED << nvs, nvsPending, form, saved, loaded >>
    /\ UNCHANGED << connVars, pipeVars, decodeVars, dnsVars, httpVars, dgVars, callVars >>

\* has_stored_credentials(ssid_out, ..., pass_out, ...) on a store: openOk is
\* whether nvs_open returned ESP_OK, ssidOk and passOk whether the two
\* nvs_get_str calls can read a key that is there.  The caller's buffers
\* are zeroed; the result is strlen(ssid_out) > 0.
ReadCredentials_SecretRequired(openOk, ssidOk, passOk, store) ==
    IF ~openOk \/ ~ssidOk \/ store.ssid = KEY_ABSENT
            \/ ~passOk \/ store.pass = KEY_ABSENT
    THEN NotLoaded
    ELSE [found |-> store.ssid # "", ssid |-> store.ssid, pass |-> store.pass]

ReadCredentials(openOk, ssidOk, passOk, store) ==
    IF ~openOk
    THEN NotLoaded
    ELSE IF ~ssidOk \/ store.ssid = KEY_ABSENT
    THEN NotLoaded
    ELSE [found |-> store.ssid # "",
          ssid |-> store.ssid,
          pass |-> IF ~passOk \/ store.pass = KEY_ABSENT THEN "" ELSE store.pass]

\* The same without storage faults.
LoadCredentials(store) == ReadCredentials(TRUE, TRUE, TRUE, store)

\* The boot after the restart: wifi_connect calls has_stored_credentials.
BootLoad ==
    /\ hpc = "restarted"
    /\ loaded' = LoadCredentials(nvs)
    /\ hpc' = "loaded"
    /\ UNCHANGED << nvs, nvsPending, form, saved, restarted >>
    /\ UNCHANGED << connVars, pipeVars, decodeVars, dnsVars, httpVars, dgVars, callVars >>

\* The portal is up, after a boot without credentials or after a boot whose
\* association attempt timed out, and a POST /save arrives.
InitSave ==
    /\ creds \in BOOLEAN
    /\ certLen = MIN_CERT_LEN
    /\ ProvisioningLoop
    /\ PipeIdle
    /\ DecodeIdle
    /\ PortalStarted
    /\ PortalUnobserved
    /\ nvs = StoreFor(creds)
    /\ nvsPending = NothingPending
    /\ hpc = "recv"
    /\ form = NoForm
    /\ saved = NothingSaved
    /\ restarted = FALSE
    /\ loaded = NotLoaded

NextSave ==
    \/ \E ret \in RecvResults, f \in Forms : SaveReceive(ret, f)
    \/ \E ok \in BOOLEAN : SaveOpen(ok)
    \/ \E ok \in BOOLEAN : SaveSetSsid(ok)
    \/ \E ok \in BOOLEAN : SaveSetPass(ok)
    \/ \E ok \in BOOLEAN, written \in SUBSET Keys : SaveCommit(ok, written)
    \/ SaveRespondRestart
    \/ BootLoad

SpecSave == InitSave /\ [][NextSave]_vars

\* ------------------------------------------------------------------------
\* Credential save: properties
\* ------------------------------------------------------------------------
\* Every step of the save succeeded.
SavedAll == saved.opened /\ saved.ssid /\ saved.pass /\ saved.committed

\* C16 (as claimed): esp_restart is called by the save handler only after the
\* credentials were persisted; when nvs_open, a write or the commit failed
\* there is no restart.
C16_RestartOnlyAfterSave ==
    restarted => SavedAll

\* C17 (as claimed): whatever step of the save failed, the next boot loads
\* either the pair stored before the save or the pair of the form, never a
\* name of one with the secret of the other.
C17_SaveIsAtomic ==
    hpc = "loaded" =>
        \/ loaded = LoadCredentials(StoreFor(creds))
        \/ loaded = LoadCredentials(form)

\* ------------------------------------------------------------------------
\* Association after wifi_connect has returned: properties
\* ------------------------------------------------------------------------
\* wifi_connect has returned true: app_main is past it.
AfterWifiConnect == pc \in {"sntp", "mqtt_start", "create_task", "idle"}

\* The re-association attempts that followed a disassociation are exhausted:
\* the handler has given up and set the fail bit.
RetriesExhausted == WIFI_FAIL_BIT \in bits /\ WIFI_CONNECTED_BIT \notin bits

\* C21 (as claimed): once the device has been associated, a disassociation
\* whose re-association attempts are exhausted without an address leads
\* eventually to Provisioning with the portal started.
C21_DisassociationFallsBackToProvisioning ==
    (AfterWifiConnect /\ RetriesExhausted)
        ~> (connection_state = CONN_STATE_WIFI_PROVISIONING /\ portal)

\* ------------------------------------------------------------------------
\* Status signal: properties
\* ------------------------------------------------------------------------
\* The signal the specification assigns to each ConnectionState.
SignalOf ==
    [s \in conn_state_t |->
        IF s = "MQTT_CONNECTED" THEN "0,50,0"
        ELSE IF s = "WIFI_CONNECTED" \/ s = "MQTT_CONNECTING" THEN "0,50,50"
        ELSE IF s = "WIFI_PROVISIONING" THEN "50,40,0"
        ELSE "50,0,0"]

\* C22: every step that changes ConnectionState, whether taken by the
\* association machine (wifi_connect, start_provisioning, wifi_event_handler)
\* or by the session manager (mqtt_start, mqtt_event_handler), leaves the
\* indicator at the colour mapped from the new state: green for
\* SessionConnected, cyan for Associated and SessionConnecting, gold for
\* Provisioning, red for Disconnected and Associating.
C22_IndicatorFollowsState ==
    [][connection_state' # connection_state => led' = SignalOf[connection_state']]_vars

C22_Witness ==
    /\ connection_state = CONN_STATE_MQTT_CONNECTED
    /\ session = "connected"
    /\ led = LED_GREEN

ReturnedTrue == pc = "sntp"

\* start_provisioning has run: wifi_connect is in its final loop.
EnteredProvisioning == pc = "provisioning_loop" /\ portal

\* C24: in a boot with stored credentials wifi_connect does not wait for
\* ever: it eventually returns true or enters Provisioning.  It returns true
\* only with the connected bit set (an address was acquired), and it goes to
\* start_provisioning only from the wait, when the wait returned without the
\* connected bit (the fail bit was set after the retries, or the timeout
\* elapsed).
C24_ConnectAttemptIsBounded ==
    /\ (creds /\ pc = "wifi_connect") ~> (ReturnedTrue \/ EnteredProvisioning)
    /\ [][(creds /\ pc' = "sntp" /\ pc # "sntp") =>
                (pc = "wait_bits" /\ WIFI_CONNECTED_BIT \in bits)]_vars
    /\ [][(creds /\ pc' = "start_provisioning" /\ pc # pc') =>
                (pc = "wait_bits" /\ WIFI_CONNECTED_BIT \notin bits)]_vars

\* The wait expired with neither bit set, and provisioning was entered.
C24_Witness ==
    /\ creds
    /\ EnteredProvisioning
    /\ bits = {}
    /\ connection_state = CONN_STATE_WIFI_PROVISIONING

\* ------------------------------------------------------------------------
\* Discarded and ignored messages: properties
\* ------------------------------------------------------------------------
\* The step is a call of handle_mqtt_message.
MessageHandled == msgs' = msgs + 1

\* The call leaves the gate, the queue and everything but the clock alone.
NothingChanged ==
    /\ last_animation_time' = last_animation_time
    /\ animation_queue' = animation_queue
    /\ acceptedAt' = acceptedAt
    /\ sent' = sent
    /\ UNCHANGED << anim, delivered >>
    /\ UNCHANGED connVars

\* C25: a message received less than 1000 ms after the time the gate holds
\* enqueues no event and leaves last_animation_time (and every other
\* variable of the program) unchanged; hence a message received 1000 ms or
\* more after the last accepted one is never discarded by the gate, whatever
\* was discarded in between.
C25_DiscardChangesNothing ==
    /\ [][(MessageHandled /\ now' - last_animation_time < 1000) => NothingChanged]_vars
    /\ [](lastMsg.kind = "msg" /\ lastMsg.debounced =>
            (lastMsg.grew = 0 /\ lastMsg.enq = << >> /\ last_animation_time = lastMsg.last))
    /\ []((lastMsg.kind = "msg" /\ lastMsg.prevAccept >= 0
                /\ lastMsg.t - lastMsg.prevAccept >= 1000) => ~lastMsg.debounced)

\* Accepted, discarded 999 ms later, accepted 999 ms after the discarded one.
C25_Witness ==
    /\ lastMsg.kind = "msg"
    /\ lastMsg.before.kind = "msg"
    /\ lastMsg.before.debounced
    /\ lastMsg.t - lastMsg.before.t = 999
    /\ lastMsg.t - lastMsg.prevAccept = 1998
    /\ lastMsg.trigger
    /\ Len(sent) = 2

\* The payload parsed and has a type that is not the string "sale".
OtherType(p) == p.parses /\ p.type # Absent /\ p.type # JString(STR_SALE)

\* C26: a parsed message with a type other than "sale", past the gate,
\* enqueues no event and leaves last_animation_time unchanged, so a sale
\* message that follows it is accepted whenever it is 1000 ms or more after
\* the last accepted message, even less than 1000 ms after the ignored one.
C26_OtherTypeIgnored ==
    /\ [](lastMsg.kind = "msg" /\ OtherType(lastMsg.p) =>
            /\ ~lastMsg.trigger
            /\ lastMsg.grew = 0
            /\ lastMsg.enq = << >>
            /\ last_animation_time = lastMsg.last
            /\ acceptedAt = lastMsg.prevAccept)
    /\ []((/\ lastMsg.kind = "msg"
           /\ lastMsg.p = P_SALE
           /\ lastMsg.before.kind = "msg"
           /\ OtherType(lastMsg.before.p)
           /\ ~lastMsg.before.debounced
           /\ lastMsg.t - lastMsg.last >= 1000) =>
                (lastMsg.trigger /\ acceptedAt = lastMsg.t))

\* A sale accepted 999 ms after an ignored refund that passed the gate.
C26_Witness ==
    /\ lastMsg.kind = "msg"
    /\ lastMsg.p = P_SALE
    /\ lastMsg.before.kind = "msg"
    /\ lastMsg.before.p = P_REFUND
    /\ ~lastMsg.before.debounced
    /\ lastMsg.t - lastMsg.before.t = 999
    /\ lastMsg.trigger
    /\ lastMsg.grew = 1

\* ------------------------------------------------------------------------
\* ConnectionState during retries and session re-establishment: properties
\* ------------------------------------------------------------------------
\* The event loop dispatches a disassociation while retries remain.
RetryingDisassociation ==
    /\ evq # << >>
    /\ Head(evq) = WIFI_EVENT_STA_DISCONNECTED
    /\ evq' = Tail(evq)
    /\ ~provisioning_mode
    /\ wifi_retry_count + 1 < WIFI_RETRY_MAX

\* C27 (as claimed): a disassociation handled while ConnectionState is
\* Associating and the retry counter is below the maximum re-attempts and
\* leaves ConnectionState at Associating (CONN_STATE_WIFI_CONNECTING).
C27_AssociatingDuringRetries ==
    [][(RetryingDisassociation /\ connection_state = CONN_STATE_WIFI_CONNECTING)
            => connection_state' = CONN_STATE_WIFI_CONNECTING]_vars

\* C28 (as claimed): every step that takes ConnectionState to
\* SessionConnected (CONN_STATE_MQTT_CONNECTED) starts from SessionConnecting
\* (CONN_STATE_MQTT_CONNECTING), on the first establishment and on every
\* re-establishment after a session loss.
C28_ConnectedOnlyFromConnecting ==
    [][(connection_state' = CONN_STATE_MQTT_CONNECTED
            /\ connection_state # CONN_STATE_MQTT_CONNECTED)
        => connection_state = CONN_STATE_MQTT_CONNECTING]_vars

\* The step is the handling of a session loss (MQTT_EVENT_DISCONNECTED).
SessionLost ==
    \/ MqttEventDisconnected
    \/ (session = "connected" /\ session' # "connected")

\* C29: the handling of a session loss sets ConnectionState to Associated
\* (CONN_STATE_WIFI_CONNECTED) and leaves the association machine alone: the
\* retry counter, the event bits, the station (no association attempt), the
\* pending events and the provisioning flags are unchanged.
C29_SessionLossLeavesAssociation ==
    [][SessionLost =>
            /\ connection_state' = CONN_STATE_WIFI_CONNECTED
            /\ wifi_retry_count' = wifi_retry_count
            /\ bits' = bits
            /\ radio' = radio
            /\ reattempts' = reattempts
            /\ evq' = evq
            /\ provisioning_mode' = provisioning_mode
            /\ scanning_mode' = scanning_mode
            /\ pc' = pc]_vars

\* A session loss handled after a disassociation: the state is Associated
\* with the retry counter at 1 and the connected bit clear.
C29_Witness ==
    /\ session = "connecting"
    /\ mqtt_client = "started"
    /\ connection_state = CONN_STATE_WIFI_CONNECTED
    /\ wifi_retry_count = 1
    /\ WIFI_CONNECTED_BIT \notin bits

\* The station is started and not associated, and no attempt is in progress.
Disassociated == radio = "idle"

\* An association attempt has been issued.
AttemptIssued == radio = "connecting"

\* C30 (as claimed): in a boot that never enters provisioning mode, every
\* state in which the station is disassociated is followed by another
\* association attempt.
C30_KeepsReconnecting ==
    ([]~provisioning_mode) => (Disassociated ~> AttemptIssued)

\* ------------------------------------------------------------------------
\* The boot from its credential store
\* ------------------------------------------------------------------------
\* What the flash may hold at boot: nothing, an empty name, a name without
\* secret, a name and a secret.
BootStores ==
    { EmptyStore,
      [ssid |-> "", pass |-> "pw1"],
      [ssid |-> "home", pass |-> KEY_ABSENT],
      StoredPair }

\* wifi_connect: wifi_init(), then the call of has_stored_credentials.
HasStoredCredentials(openOk, ssidOk, passOk) ==
    /\ pc = "has_stored_credentials"
    /\ loaded' = ReadCredentials(openOk, ssidOk, passOk, nvs)
    /\ creds' = loaded'.found
    /\ lastCall' = [fn |-> "has_stored_credentials", opened |-> openOk,
                    ssidRead |-> ssidOk, passRead |-> passOk]
    /\ pc' = "wifi_connect"
    /\ UNCHANGED << certLen, sntp_attempts, connection_state, led, wifi_retry_count,
                    provisioning_mode, scanning_mode, bits, mqtt_client, portal,
                    radio, evq, session, disassocs, reattempts, lastHandled >>
    /\ UNCHANGED pipeVars
    /\ UNCHANGED << decodeVars, dnsVars, httpVars, dgVars, calls >>
    /\ UNCHANGED << nvs, nvsPending, hpc, form, saved, restarted >>

\* State when app_main calls wifi_connect, the store not yet read.
InitBoot ==
    /\ creds = FALSE
    /\ certLen \in CertLens
    /\ pc = "has_stored_credentials"
    /\ sntp_attempts = 0
    /\ connection_state = CONN_STATE_DISCONNECTED
    /\ led = LED_RED
    /\ wifi_retry_count = 0
    /\ provisioning_mode = FALSE
    /\ scanning_mode = FALSE
    /\ bits = {}
    /\ mqtt_client = "null"
    /\ portal = FALSE
    /\ radio = "off"
    /\ evq = << >>
    /\ session = "off"
    /\ disassocs = 0
    /\ reattempts = 0
    /\ lastHandled = NoEvent
    /\ PipeIdle
    /\ DecodeIdle
    /\ PortalDown
    /\ PortalUnobserved
    /\ nvs \in BootStores
    /\ nvsPending = NothingPending
    /\ hpc = "idle"
    /\ form = NoForm
    /\ saved = NothingSaved
    /\ restarted = FALSE
    /\ loaded = NotLoaded

NextBoot ==
    \/ \E openOk, ssidOk, passOk \in BOOLEAN : HasStoredCredentials(openOk, ssidOk, passOk)
    \/ Next

\* The tasks scheduled as in SpecLive.
SpecBoot ==
    /\ InitBoot
    /\ [][NextBoot]_vars
    /\ WF_vars(\E openOk, ssidOk, passOk \in BOOLEAN :
                    HasStoredCredentials(openOk, ssidOk, passOk))
    /\ WF_vars(MainTaskStep)
    /\ WF_vars(wifi_event_handler)

\* ------------------------------------------------------------------------
\* Credential load: properties
\* ------------------------------------------------------------------------
\* has_stored_credentials has been called in this boot.
CredentialsRead == lastCall.fn = "has_stored_credentials"

\* The cases the specification treats as absence of credentials.
TreatedAsAbsent ==
    \/ ~lastCall.opened
    \/ ~lastCall.ssidRead
    \/ nvs.ssid = KEY_ABSENT
    \/ nvs.ssid = ""

\* C31: has_stored_credentials returns false exactly when the namespace
\* cannot be opened, the name cannot be read or is not there, or the stored
\* name is empty; then wifi_connect attempts no association and goes on to
\* Provisioning with the portal started.  With a readable non-empty name it
\* returns true even when the secret is missing or unreadable: the secret is
\* the empty string and the association attempt is made.
C31_StorageFaultIsAbsence ==
    /\ [](CredentialsRead => (creds <=> ~TreatedAsAbsent))
    /\ []((CredentialsRead /\ ~creds) =>
            /\ pc \in {"wifi_connect", "start_provisioning", "start_portal",
                        "provisioning_loop"}
            /\ radio \in {"off", "ap"}
            /\ reattempts = 0)
    /\ []((CredentialsRead /\ creds) =>
            /\ loaded.ssid = nvs.ssid
            /\ loaded.pass = (IF lastCall.passRead /\ nvs.pass # KEY_ABSENT
                               THEN nvs.pass ELSE ""))
    /\ (CredentialsRead /\ ~creds) ~> (pc = "provisioning_loop" /\ portal)
    /\ (CredentialsRead /\ creds /\ pc = "wifi_connect")
            ~> (pc = "wait_bits" /\ radio = "connecting")

\* The namespace could not be opened although a pair is stored, and the boot
\* is in Provisioning.
C31_Witness ==
    /\ CredentialsRead
    /\ ~lastCall.opened
    /\ nvs = StoredPair
    /\ pc = "provisioning_loop"
    /\ connection_state = CONN_STATE_WIFI_PROVISIONING

\* ------------------------------------------------------------------------
\* Event fields: properties
\* ------------------------------------------------------------------------
\* The characters of the event's two strings leave room for the NUL in
\* currency[8] and event_id[64].
FieldsBounded(e) == Len(e.currency) <= 7 /\ Len(e.event_id) <= 63

\* C32: every event in the queue, and every event ever enqueued, has a
\* currency of at most 7 and an event_id of at most 63 characters; the
\* event of an accepted sale holds the first 7 and 63 characters of the
\* message's values when these are longer.
C32_EventFieldsBounded ==
    /\ \A i \in 1..Len(animation_queue) : FieldsBounded(animation_queue[i])
    /\ \A i \in 1..Len(sent) : FieldsBounded(sent[i])
    /\ SaleEnqueued(lastMsg) =>
            /\ lastMsg.p.currency.k = "string" =>
                    IsPrefixOfLen(lastMsg.enq[1].currency, lastMsg.p.currency.s, 7)
            /\ lastMsg.p.eventId.k = "string" =>
                    IsPrefixOfLen(lastMsg.enq[1].event_id, lastMsg.p.eventId.s, 63)

\* An 8-character currency and a 64-character eventId were enqueued cut to
\* 7 and 63.
C32_Witness ==
    /\ SaleEnqueued(lastMsg)
    /\ lastMsg.p = P_SALE_SUCCEEDED_LONG
    /\ Len(lastMsg.p.currency.s) = 8
    /\ Len(lastMsg.p.eventId.s) = 64
    /\ Len(animation_queue) > 0
    /\ Len(animation_queue[Len(animation_queue)].currency) = 7
    /\ Len(animation_queue[Len(animation_queue)].event_id) = 63

\* ------------------------------------------------------------------------
\* The established session with its environment: messages, the consumer
\* task, session events and network events together
\* ------------------------------------------------------------------------
\* Bound of the model
MaxSessionMsgs == 2

NextSession ==
    \/ MqttEventData({P_SALE}, {ANIMATION_DEBOUNCE_MS}, MaxSessionMsgs)
    \/ CreateAnimationTask
    \/ AnimationReceive
    \/ AnimationSuccess
    \/ AnimationFinish
    \/ MqttEventConnected
    \/ MqttEventDisconnected
    \/ RadioAssociate
    \/ RadioGotIp
    \/ RadioFail
    \/ wifi_event_handler

SpecSession == InitPipe /\ [][NextSession]_vars

\* ------------------------------------------------------------------------
\* Indicator after an animation; ConnectionState and the network layer:
\* properties
\* ------------------------------------------------------------------------
\* trigger_sale_animation returns.
AnimationEnds == anim = "success" /\ anim' = "recv"

\* C33 (as claimed): the step that ends a sale animation leaves the LED at
\* the colour mapped from the ConnectionState of that moment: red for
\* Disconnected and Associating, gold for Provisioning, cyan for Associated
\* and SessionConnecting, green for SessionConnected.
C33_LedRestoredToState ==
    [][AnimationEnds => led' = SignalOf[connection_state']]_vars

\* C34 (as claimed): ConnectionState is Associated, SessionConnecting or
\* SessionConnected only while the connected bit is set.
C34_AssociatedOnlyWithLink ==
    connection_state \in {CONN_STATE_WIFI_CONNECTED, CONN_STATE_MQTT_CONNECTING,
                          CONN_STATE_MQTT_CONNECTED}
        => WIFI_CONNECTED_BIT \in bits

\* ------------------------------------------------------------------------
\* DNS responder buffer and task lifetime: properties
\* ------------------------------------------------------------------------
\* C35 (as claimed): for every received datagram of 12 to 512 bytes the
\* bytes the task stores (the request copy and the 16-byte answer) lie
\* within the 512 bytes of tx_buffer, and what is sent is the response built
\* there.
C35_ResponseFitsBuffer ==
    (dgCount > 0 /\ lastRx.len >= 12 /\ lastRx.len <= 512) =>
        /\ BytesWritten(lastRx.len) <= 512
        /\ lastTx # Smashed

\* C36 (as claimed): whatever dns_server_start and dns_server_stop calls were
\* made, at most one dns_server_task exists, and while the responder runs
\* its socket is the open one.
C36_AtMostOneResponder ==
    /\ liveTasks <= 1
    /\ dns_running => (dns_socket >= 0 /\ openSockets = 1)

\* ------------------------------------------------------------------------
\* Time sync: properties
\* ------------------------------------------------------------------------
\* C37 (as claimed): the time-sync loop makes at most 3 retries after the
\* first attempt, and when it ends (app_main going on to mqtt_start in
\* either case) the failure is reported if and only if the attempt that
\* ended it, and so every attempt, had failed.
C37_TimeSyncBoundedAndReported ==
    /\ [](sntp_attempts <= 3)
    /\ [][\A ok \in BOOLEAN :
            (ObtainTime(ok) /\ pc' # pc) =>
                (pc' = "mqtt_start" /\ (SyncFailureReported' <=> ~ok))]_vars

\* ------------------------------------------------------------------------
\* First message of a boot: properties
\* ------------------------------------------------------------------------
\* C38 (as claimed): an accepted-type message handled when no message has
\* been accepted yet in this boot passes the debounce gate and is enqueued,
\* whatever its receive time.
C38_FirstMessageNotDebounced ==
    (lastMsg.kind = "msg" /\ lastMsg.p \in AcceptedPayloads /\ lastMsg.prevAccept < 0) =>
        /\ ~lastMsg.debounced
        /\ lastMsg.trigger
        /\ lastMsg.grew = 1

\* ------------------------------------------------------------------------
\* POST /save without a body: properties
\* ------------------------------------------------------------------------
\* C39: when httpd_req_recv gives no data (an error or 0 bytes) the handler
\* answers 400 and returns: the store, the pending values and the form are
\* as they were and there is no restart; and once the request is rejected
\* nothing of the save happens later.
C39_NoBodyRejected ==
    /\ [][\A ret \in RecvResults, f \in Forms :
            (SaveReceive(ret, f) /\ ret <= 0) =>
                /\ hpc' = "rejected"
                /\ nvs' = nvs
                /\ nvsPending' = nvsPending
                /\ form' = form
                /\ saved' = saved
                /\ restarted' = restarted]_vars
    /\ [](hpc = "rejected" =>
            /\ nvs = StoreFor(creds)
            /\ saved = NothingSaved
            /\ ~restarted
            /\ loaded = NotLoaded)
    /\ [][hpc = "rejected" => hpc' = "rejected"]_vars

\* The request was rejected and the stored pair is still in the store.
C39_Witness ==
    /\ hpc = "rejected"
    /\ creds
    /\ nvs = StoredPair
    /\ ~restarted

====
